---- MODULE Spec2Model ----
(***************************************************************************)
(* Model of the incremental invoice synchronisation of kiotviet-integration *)
(* (src/src/services/invoice_service.py): InvoiceService.sync, its page     *)
(* loop, the record filter, the batch step, the detail fetch and the        *)
(* checkpoint store.  In Spec the remote API is the environment: every      *)
(* request answers with any page, any detail list or any of the errors the  *)
(* gateway can raise.  The gateway (src/src/api/client.py, SpecRequest),    *)
(* the checkpoint store (SpecStore) and the token service                   *)
(* (src/src/services/token_service.py, SpecToken) are also run on their     *)
(* own, over every answer and every file content of the model, and so is    *)
(* the blob upload (src/src/utils/azure_blob.py, SpecUpload).  SpecResumed  *)
(* starts the runs from the files of an earlier run, and in SpecServed the  *)
(* server holds a fixed invoice list that it serves by Skip and Take.       *)
(* In SpecStable every run completes and each invoice of the server keeps   *)
(* its purchase date, and SpecRunAll is the combined script                 *)
(* (src/scripts/kiotviet_run_all.py).                                       *)
(*                                                                          *)
(* Strings that the code compares (purchase dates, the watermark) are       *)
(* sequences of characters, characters are the digits 1..9, and Python's    *)
(* None is the sequence <<0>>, which is no string.                          *)
(***************************************************************************)
EXTENDS Integers, Sequences, FiniteSets, TLC

----------------------------------------------------------------------------
(* Bounds of the model *)

\* number of sync runs in one behaviour
MaxRuns == 2
\* invoice ids the server can list are 0..MaxId (0: a missing, null or zero Id)
MaxId == 2
\* a detail answer holds at most MaxLines line records
MaxLines == 1

\* a save that fails leaves at most MaxWritten characters of the new text
MaxWritten == 0

\* the server of a served run holds at most MaxServed invoices
MaxServed == 4

\* api.max_retries of the configuration (default 3), scaled down
max_retries == 2

\* retry_delay of the gateway (default 0.5 s), in tenths of a second
retry_delay == 5

\* invoices.page_size of the configuration (default 100), scaled down
page_size == 2

----------------------------------------------------------------------------
(* Values *)

None == <<0>>

\* non-empty purchase dates: "12" and "2" ("12" < "2" as strings)
Dates == {<<1, 2>>, <<2>>}

\* the PurchaseDate field of a listed record: a date, or None for a null, missing
\* or empty field (the code reads the three as "")
RawDates == Dates \cup {None}

\* the records the server can list: Id 0 stands for every missing, null, zero
\* or negative Id (the code drops them all, whatever their date)
RawInvoices ==
    [Id : 1..MaxId, PurchaseDate : RawDates] \cup {[Id |-> 0, PurchaseDate |-> None]}

\* the Data list of a listing answer
Pages == UNION {[1..n -> RawInvoices] : n \in 0..page_size}

\* Python truthiness of an Optional[str]
Truthy(s) == s # None /\ s # <<>>

\* Python's str > str: lexicographic comparison by character
StrGreater(a, b) ==
    \E i \in 1..Len(a) :
        /\ i <= Len(b) + 1
        /\ \A j \in 1..(i - 1) : a[j] = b[j]
        /\ (i = Len(b) + 1 \/ (i <= Len(b) /\ a[i] > b[i]))

\* int(invoice.get("Id", 0) or 0)
InvoiceIdOf(invoice) == invoice.Id

\* str(invoice.get("PurchaseDate", "") or "")
PurchaseDateOf(invoice) ==
    IF Truthy(invoice.PurchaseDate) THEN invoice.PurchaseDate ELSE <<>>

\* the exception classes of src/src/api/exceptions.py and their base class,
\* and the built-in exceptions the code can raise
ExceptionBase ==
    [KiotVietAPIError |-> "Exception",
     AuthenticationError |-> "KiotVietAPIError",
     RateLimitError |-> "KiotVietAPIError",
     DataValidationError |-> "KiotVietAPIError",
     ConfigurationError |-> "KiotVietAPIError",
     AttributeError |-> "Exception",
     TypeError |-> "Exception",
     ValueError |-> "Exception",
     FileNotFoundError |-> "Exception"]

\* isinstance(exc, cls) for exc of class e
IsInstance(e, cls) == e = cls \/ ExceptionBase[e] = cls

\* what KiotVietClient._request can raise
GatewayErrors == {"AuthenticationError", "RateLimitError", "KiotVietAPIError"}

\* a Python value that is neither None nor a str (a number, a list, a bool)
NotAString == <<0, 0>>

\* isinstance(v, str): a sequence of characters, the empty string included
IsStr(v) == \A i \in 1..Len(v) : v[i] \in 1..9

\* the characters of a JSON text besides the digits 1..9; key stands for the
\* name last_purchase_date (whitespace, which json.load skips, is left out)
Ch ==
    [lbrace |-> 20, rbrace |-> 21, quote |-> 22, colon |-> 23,
     lbracket |-> 24, rbracket |-> 25, null |-> 26, key |-> 30]

\* json.dump({"last_purchase_date": purchase_date}): the text written
JsonDump(purchase_date) ==
    <<Ch.lbrace, Ch.quote, Ch.key, Ch.quote, Ch.colon, Ch.quote>>
        \o purchase_date \o <<Ch.quote, Ch.rbrace>>

\* json.load of a text that is no object: null, a string, a number, []
\* (v: the Python value; ok: the text is a JSON value)
JsonScalar(t) ==
    IF t = <<Ch.null>> THEN [ok |-> TRUE, v |-> None]
    ELSE IF Len(t) >= 2 /\ t[1] = Ch.quote /\ t[Len(t)] = Ch.quote
              /\ IsStr(SubSeq(t, 2, Len(t) - 1))
    THEN [ok |-> TRUE, v |-> SubSeq(t, 2, Len(t) - 1)]
    ELSE IF Len(t) >= 1 /\ IsStr(t) THEN [ok |-> TRUE, v |-> NotAString]
    ELSE IF t = <<Ch.lbracket, Ch.rbracket>> THEN [ok |-> TRUE, v |-> NotAString]
    ELSE [ok |-> FALSE, v |-> None]

\* json.load: ok is false when it raises JSONDecodeError; dict tells whether
\* the payload is an object, and field is payload.get("last_purchase_date")
JsonLoad(text) ==
    LET opening == <<Ch.lbrace, Ch.quote, Ch.key, Ch.quote, Ch.colon>>
    IN  IF text = <<Ch.lbrace, Ch.rbrace>>
        THEN [ok |-> TRUE, dict |-> TRUE, field |-> None]
        ELSE IF /\ Len(text) > Len(opening) + 1
                /\ SubSeq(text, 1, Len(opening)) = opening
                /\ text[Len(text)] = Ch.rbrace
                /\ JsonScalar(SubSeq(text, Len(opening) + 1, Len(text) - 1)).ok
        THEN [ok |-> TRUE, dict |-> TRUE,
              field |-> JsonScalar(SubSeq(text, Len(opening) + 1, Len(text) - 1)).v]
        ELSE IF JsonScalar(text).ok
        THEN [ok |-> TRUE, dict |-> FALSE, field |-> None]
        ELSE [ok |-> FALSE, dict |-> FALSE, field |-> None]

\* the checkpoint file: whether it exists and the text it holds
NoCheckpointFile == [exists |-> FALSE, text |-> <<>>]

\* the lines of the output file
HeaderLine == [kind |-> "header", InvoiceId |-> 0, Line |-> 0]
Row(id, k) == [kind |-> "row", InvoiceId |-> id, Line |-> k]

\* InvoiceSyncResult (output_file and duration_seconds are not modelled)
SyncResult(inv, lines, newest, inc, updated) ==
    [invoices |-> inv, lines |-> lines, newest_purchase_date |-> newest,
     incremental |-> inc, checkpoint_updated |-> updated]

NoResult == SyncResult(0, 0, None, FALSE, FALSE)

----------------------------------------------------------------------------
(* Values of the gateway, src/src/api/client.py *)

\* HTTP status codes the server can answer
Statuses == {200, 204, 400, 401, 404, 429, 500, 503}

\* what session.request does on one attempt: requests.Timeout, another
\* requests.RequestException, or a response with a status and a body that is
\* empty, a JSON text or a text json cannot decode
ClientAnswers ==
    [kind : {"timeout", "error"}, status : {0}, body : {"empty"}]
    \cup [kind : {"response"}, status : Statuses, body : {"empty", "json", "text"}]

\* the state of a call of _request: pending, returned (value: "{}" for the
\* empty object, "json" for the decoded body) or raised (exc)
\* cause is the exception a raised one is chained from ("raise ... from exc")
Pending == [kind |-> "pending", exc |-> "none", cause |-> "none", value |-> "none"]
Returned(value) == [kind |-> "return", exc |-> "none", cause |-> "none", value |-> value]
Raised(exc, cause) == [kind |-> "raise", exc |-> exc, cause |-> cause, value |-> "none"]

----------------------------------------------------------------------------
(* Values of the checkpoint store *)

\* how a call of _load_checkpoint ended: exc is "never" when none was made,
\* value is the watermark returned, read_failed tells that open or read
\* raised OSError
NoLoad == [exc |-> "never", value |-> None, read_failed |-> FALSE]

\* texts a checkpoint file can hold besides the ones _save_checkpoint writes:
\* {}, a null field, a number field, an empty-string field, null, [], a
\* number, a string, and the empty file
OtherTexts ==
    {<<Ch.lbrace, Ch.rbrace>>,
     <<Ch.lbrace, Ch.quote, Ch.key, Ch.quote, Ch.colon, Ch.null, Ch.rbrace>>,
     <<Ch.lbrace, Ch.quote, Ch.key, Ch.quote, Ch.colon, 7, Ch.rbrace>>,
     JsonDump(<<>>),
     <<Ch.null>>,
     <<Ch.lbracket, Ch.rbracket>>,
     <<7>>,
     <<Ch.quote, 2, Ch.quote>>,
     <<>>}

\* the beginnings of a text, the text itself included
Prefixes(text) == {SubSeq(text, 1, k) : k \in 0..Len(text)}

\* every content of the checkpoint file: none, a saved watermark, a saved
\* watermark cut short, or another text
CheckpointFiles ==
    {NoCheckpointFile}
    \cup {[exists |-> TRUE, text |-> t] :
             t \in OtherTexts \cup UNION {Prefixes(JsonDump(d)) : d \in Dates}}

----------------------------------------------------------------------------
(* Values of the token service, src/src/services/token_service.py *)

\* the characters of the strings of a token file: the digits 0..9, a letter
\* (10) and a superscript digit (11), which str.isdigit accepts and int rejects
Letter == <<10>>
Superscript == <<11>>

\* a value of the token file: Missing for a key the payload lacks, otherwise a
\* JSON value with its Python type t; v holds the characters of a str and the
\* number of an int
Missing == [t |-> "missing", v |-> <<>>]
Present == [t |-> "present", v |-> <<>>]
Null == [t |-> "NoneType", v |-> <<>>]
StrVal(chars) == [t |-> "str", v |-> chars]
IntVal(n) == [t |-> "int", v |-> <<n>>]
BoolVal(n) == [t |-> "bool", v |-> <<n>>]
FloatVal == [t |-> "float", v |-> <<>>]

AccessTokenValues == {Missing, Null, StrVal(<<>>), StrVal(Letter), IntVal(1)}
RetailerIdValues == {Missing, Null, StrVal(Letter)}
BranchIdValues ==
    {Missing, Null, IntVal(1), IntVal(0), IntVal(-1), BoolVal(1), FloatVal, StrVal(<<>>),
     StrVal(<<1>>), StrVal(<<0>>), StrVal(<<1, 2>>), StrVal(Letter), StrVal(Superscript)}
ExpiresAtValues == {Missing, Null, StrVal(Letter), IntVal(1)}

\* the payload json.load returns: an object with its four fields, or a value
\* of another type; of a list or a string the fields tell whether
\* "key in data" holds
DictPayloads ==
    [t : {"dict"}, access_token : AccessTokenValues, retailer_id : RetailerIdValues,
     branch_id : BranchIdValues, expires_at : ExpiresAtValues]
OtherPayloads ==
    [t : {"NoneType", "int", "float", "bool"}, access_token : {Missing},
     retailer_id : {Missing}, branch_id : {Missing}, expires_at : {Missing}]
    \cup [t : {"list", "str"}, access_token : {Missing, Present},
          retailer_id : {Missing, Present}, branch_id : {Missing, Present},
          expires_at : {Missing}]
NoPayload ==
    [t |-> "NoneType", access_token |-> Missing, retailer_id |-> Missing,
     branch_id |-> Missing, expires_at |-> Missing]

\* the token file: absent, unreadable (open or read raises OSError),
\* malformed (json.load raises JSONDecodeError) or a JSON text
NoTokenFile == [kind |-> "absent", data |-> NoPayload]
TokenFiles ==
    [kind : {"absent", "unreadable", "malformed"}, data : {NoPayload}]
    \cup [kind : {"json"}, data : DictPayloads \cup OtherPayloads]

\* how TokenService.load ended: exc is "pending" before the call, "none" when
\* it returned AccessCredentials with these fields
Credentials(exc, access_token, retailer_id, branch_id, expires_at) ==
    [exc |-> exc, access_token |-> access_token, retailer_id |-> retailer_id,
     branch_id |-> branch_id, expires_at |-> expires_at]
NotLoaded == Credentials("pending", Missing, Missing, Missing, Missing)
LoadRaised(exc) == Credentials(exc, Missing, Missing, Missing, Missing)

----------------------------------------------------------------------------
(* Values of the blob upload, src/src/utils/azure_blob.py *)

\* what os.getenv reads for a variable: None (unset), "" or a non-empty string
EnvValues(name) == {None, <<>>, <<name>>}

\* the default of AZURE_STORAGE_CONTAINER, "kiotviet-data"
DefaultContainer == <<3>>

\* file paths: a directory and a file name
FilePaths == {<<7, 4>>, <<7, 5>>}

\* the blob_name argument: None or a name
BlobNames == {None, <<6>>}

\* how Azure and the file behave once the upload is attempted: all calls
\* succeed ("ok"), or the named call raises
AzureOutcomes ==
    {"ok", "from_connection_string", "get_blob_client", "open", "upload_blob"}

\* a call of upload_to_azure_blob: the environment, the arguments, whether the
\* file exists, the calls made to the blob client so far and how it ended
UploadCall(connection_string, container, file_path, exists, blob_name) ==
    [connection_string |-> connection_string, container |-> container,
     file_path |-> file_path, exists |-> exists, blob_name |-> blob_name,
     calls |-> <<>>, exc |-> "pending", check |-> "none", url |-> None]

NoUpload == UploadCall(None, None, <<7, 4>>, FALSE, None)

----------------------------------------------------------------------------
(* Values of the served runs *)

\* no server list is fixed: every listing answer is arbitrary
NoServer == [list |-> <<>>, inclusive |-> FALSE]

\* the command line of scripts/kiotviet_run_all.py (--product-page-size and
\* --product-output are handed to the product export as they are)
ScriptArgs ==
    [full_invoice : BOOLEAN, skip_invoice : BOOLEAN, skip_product : BOOLEAN]

\* a run of the script with arguments args, before main calls anything: the
\* calls made so far with the exception each raised, what was logged as an
\* error, the exit code (-1 while the process runs)
ScriptRun(args) ==
    [pc |-> "main", args |-> args, steps |-> <<>>, logged |-> <<>>,
     exit_code |-> -1]

\* the script is not run
NoScript ==
    [pc |-> "off",
     args |-> [full_invoice |-> FALSE, skip_invoice |-> FALSE, skip_product |-> FALSE],
     steps |-> <<>>, logged |-> <<>>, exit_code |-> -1]

\* no sync call has been made before the current one
NoPrev ==
    [pc |-> "idle", is_incremental_run |-> FALSE, last_purchase_date |-> None,
     openLen |-> 0, failed |-> {}]

----------------------------------------------------------------------------
VARIABLES
    checkpoint,           \* the checkpoint file
    outExists,            \* the output file exists
    outFile,              \* the lines of the output file
    pc,                   \* "idle", "loop", "batch", "finish", "done", "failed",
                          \* "save_failed"
    runs,                 \* sync calls made so far
    incremental,          \* the argument of the current sync call
    last_purchase_date,   \* W0
    is_incremental_run,
    file_mode,            \* "a" or "w"
    total_invoices,
    total_lines,
    newest_purchase_date,
    skip,
    page,
    seen_ids,
    seen_before,          \* seen_ids before the last page was filtered
    invoices,             \* the filtered page
    idx,                  \* position of _process_batch in invoices
    processed_invoices,
    processed_lines,
    batch_newest,         \* newest_purchase_date of _process_batch
    error,                \* class of the exception sync raised, or "none"
    result,               \* the InvoiceSyncResult returned (when pc = "done")
    ckptBefore,           \* the checkpoint file when the run began
    outExisted,           \* whether the output file existed when the run began
    openLen,              \* lines in the output file right after it was opened
    listLog,              \* payloads of the listing requests of the run
    detailLog,            \* detail requests of the run and their answers
    ckptWrites,           \* writes of the checkpoint file in the run
    ckptReads,            \* reads of the checkpoint file in the run
    duplicates,           \* how the pages of the run repeated ids and whether
                          \* the filter cut a full page short (SpecObserved)
    invoices_raw,         \* the Data list handed to _filter_invoices (SpecFilter)
    attempt,              \* _request: the loop variable of the retry loop
    responses,            \* _request: the answers received so far
    last_error,           \* _request: the failure remembered for the final raise
    sleeps,               \* _request: the delays slept so far, in order
    outcome,              \* _request: pending, the value returned or the exception
    store_pc,             \* checkpoint store: "idle", or "open" inside a save
    save_arg,             \* checkpoint store: the purchase_date of the last save
    store_old,            \* checkpoint store: the file before the last save
    save_exc,             \* checkpoint store: how the last save ended ("never",
                          \* "pending", "none" or the exception raised)
    load_out,             \* checkpoint store: how the last load made since the
                          \* last save ended
    token_file,           \* TokenService: the token file
    credentials,          \* TokenService: how load() ended
    upload,               \* upload_to_azure_blob: its inputs and how it ended
    server,               \* the invoice list of the server (SpecServed)
    listed,               \* the shape of the last listing answer of the run
    prev,                 \* how the previous sync call ended
    script                \* a run of scripts/kiotviet_run_all.py

vars == <<checkpoint, outExists, outFile, pc, runs, incremental,
          last_purchase_date, is_incremental_run, file_mode, total_invoices,
          total_lines, newest_purchase_date, skip, page, seen_ids,
          seen_before, invoices, idx, processed_invoices, processed_lines,
          batch_newest, error, result, ckptBefore, outExisted, openLen,
          listLog, detailLog, ckptWrites, ckptReads, duplicates,
          invoices_raw, attempt, responses, last_error, sleeps, outcome,
          store_pc, save_arg, store_old, save_exc, load_out, token_file,
          credentials, upload, server, listed, prev, script>>

fileVars == <<checkpoint, outExists, outFile>>
argVars == <<incremental, last_purchase_date, is_incremental_run, file_mode>>
loopVars == <<total_invoices, total_lines, newest_purchase_date, skip, page>>
batchVars == <<invoices, idx, processed_invoices, processed_lines, batch_newest>>
startVars == <<ckptBefore, outExisted, openLen>>
clientVars == <<attempt, responses, last_error, sleeps, outcome>>
storeVars == <<store_pc, save_arg, store_old, save_exc, load_out>>
tokenVars == <<token_file, credentials>>
\* the parts checked on their own: gateway, checkpoint store, token service
unitVars == <<clientVars, storeVars, tokenVars, upload, script>>
\* the variables of a sync run, the checkpoint file apart
runVars ==
    <<outExists, outFile, pc, runs, argVars, loopVars, seen_ids, seen_before,
      batchVars, error, result, startVars, listLog, detailLog, ckptWrites,
      ckptReads, duplicates, invoices_raw, server, listed, prev>>

\* no request, no store call and no credential load has been made
InitClient ==
    /\ attempt = 0
    /\ responses = <<>>
    /\ last_error = "none"
    /\ sleeps = <<>>
    /\ outcome = Pending

InitStore ==
    /\ store_pc = "idle"
    /\ save_arg = <<>>
    /\ store_old = NoCheckpointFile
    /\ save_exc = "never"
    /\ load_out = NoLoad

InitToken ==
    /\ token_file = NoTokenFile
    /\ credentials = NotLoaded

InitUpload == upload = NoUpload

InitScript == script = NoScript

InitUnits == InitClient /\ InitStore /\ InitToken /\ InitUpload /\ InitScript

\* no run has been made: the state of a sync call before its first step, the
\* count of sync calls starting at r
InitSyncFrom(r) ==
    /\ pc = "idle"
    /\ runs = r
    /\ incremental = FALSE
    /\ last_purchase_date = None
    /\ is_incremental_run = FALSE
    /\ file_mode = "w"
    /\ total_invoices = 0
    /\ total_lines = 0
    /\ newest_purchase_date = None
    /\ skip = 0
    /\ page = 1
    /\ seen_ids = {}
    /\ seen_before = {}
    /\ invoices = <<>>
    /\ idx = 1
    /\ processed_invoices = 0
    /\ processed_lines = 0
    /\ batch_newest = None
    /\ error = "none"
    /\ result = NoResult
    /\ ckptBefore = NoCheckpointFile
    /\ outExisted = FALSE
    /\ openLen = 0
    /\ listLog = <<>>
    /\ detailLog = <<>>
    /\ ckptWrites = 0
    /\ ckptReads = 0
    /\ duplicates = {}
    /\ invoices_raw = <<>>
    /\ listed = "none"
    /\ prev = NoPrev

InitSync == InitSyncFrom(0)

\* no run has been made, there is no output file and every listing answer is
\* arbitrary
InitRun ==
    /\ outExists = FALSE
    /\ outFile = <<>>
    /\ server = NoServer
    /\ InitSync

Init ==
    /\ checkpoint = NoCheckpointFile
    /\ InitRun
    /\ InitUnits

----------------------------------------------------------------------------
(* The checkpoint store *)

\* _load_checkpoint: the watermark returned (value) or the exception raised
\* (exc).  failed_read: open or read raised OSError.
LoadCheckpoint(file, failed_read) ==
    IF ~file.exists THEN [exc |-> "none", value |-> None]
    ELSE IF failed_read THEN [exc |-> "ConfigurationError", value |-> None]
    ELSE LET payload == JsonLoad(file.text)
             stored == IF payload.dict THEN payload.field ELSE None
         IN  IF ~payload.ok THEN [exc |-> "ConfigurationError", value |-> None]
             ELSE IF stored # None /\ ~IsStr(stored)
             THEN [exc |-> "ConfigurationError", value |-> None]
             ELSE [exc |-> "none", value |-> stored]

\* faulty variant: the file is opened for append and keeps its text
OpenWrite_Appends(file) == [exists |-> TRUE, text |-> file.text]

\* checkpoint_path.open("w"): the file exists and is empty
OpenWrite(file) == [exists |-> TRUE, text |-> <<>>]

\* the open file after text was written to it
WriteText(file, text) == [exists |-> TRUE, text |-> file.text \o text]

\* _save_checkpoint: the file after open("w") and json.dump have succeeded
SaveCheckpoint(purchase_date) == [exists |-> TRUE, text |-> JsonDump(purchase_date)]

----------------------------------------------------------------------------
(* KiotVietClient._request, src/src/api/client.py lines 73-165 *)

\* faulty variant: any status of 400 and above is handled as a server error
Classify_ClientErrorRetried(answer) ==
    IF answer.kind = "timeout" THEN "timeout"
    ELSE IF answer.kind = "error" THEN "error"
    ELSE IF answer.status = 401 THEN "unauthorized"
    ELSE IF answer.status = 429 THEN "rate_limit"
    ELSE IF 400 <= answer.status /\ answer.status < 600 THEN "server_error"
    ELSE IF answer.body = "empty" THEN "no_content"
    ELSE IF answer.body = "json" THEN "json"
    ELSE "not_json"

\* the branch of the loop body an answer takes, in the order of the code: the
\* two except clauses, then the tests of lines 125, 128, 135, 150, 155, 158
Classify(answer) ==
    IF answer.kind = "timeout" THEN "timeout"
    ELSE IF answer.kind = "error" THEN "error"
    ELSE IF answer.status = 401 THEN "unauthorized"
    ELSE IF answer.status = 429 THEN "rate_limit"
    ELSE IF 500 <= answer.status /\ answer.status < 600 THEN "server_error"
    ELSE IF ~(answer.status < 400) THEN "client_error"
    ELSE IF answer.body = "empty" THEN "no_content"
    ELSE IF answer.body = "json" THEN "json"
    ELSE "not_json"

\* faulty variant: one retry fewer than max_retries
CanRetry_OneFewer(k) == k < max_retries - 1

\* "attempt < self.max_retries" (lines 106, 120, 130, 145)
CanRetry(k) == k < max_retries

\* faulty variant: a persistent 429 is raised as a plain API error
ExhaustedError_Generic(branch) == "KiotVietAPIError"

\* the exception raised when the last attempt fails (lines 109, 123, 133, 148)
ExhaustedError(branch) ==
    IF branch = "rate_limit" THEN "RateLimitError" ELSE "KiotVietAPIError"

\* the exception the final raise is chained from (lines 111, 123)
ExhaustedCause(branch) ==
    IF branch = "timeout" THEN "Timeout"
    ELSE IF branch = "error" THEN "RequestException"
    ELSE "none"

\* last_error after an answer (lines 98, 113, 136); a 429 leaves it as it was
LastError(branch, last) ==
    IF branch = "timeout" THEN "Timeout"
    ELSE IF branch = "error" THEN "RequestException"
    ELSE IF branch = "server_error" THEN "KiotVietAPIError"
    ELSE last

\* the branches that sleep and continue while CanRetry holds
Retried == {"timeout", "error", "rate_limit", "server_error"}

\* one iteration of the loop with loop variable k: whether it sleeps and
\* continues, and otherwise how the call ends
HandleAnswer(answer, k) ==
    LET branch == Classify(answer)
    IN  IF branch \in Retried
        THEN IF CanRetry(k)
             THEN [retry |-> TRUE, outcome |-> Pending]
             ELSE [retry |-> FALSE,
                   outcome |-> Raised(ExhaustedError(branch), ExhaustedCause(branch))]
        ELSE IF branch = "unauthorized"
        THEN [retry |-> FALSE, outcome |-> Raised("AuthenticationError", "none")]
        ELSE IF branch = "client_error"
        THEN [retry |-> FALSE, outcome |-> Raised("KiotVietAPIError", "none")]
        ELSE IF branch = "no_content"
        THEN [retry |-> FALSE, outcome |-> Returned("{}")]
        ELSE IF branch = "json"
        THEN [retry |-> FALSE, outcome |-> Returned("json")]
        ELSE [retry |-> FALSE, outcome |-> Raised("KiotVietAPIError", "JSONDecodeError")]

\* one attempt of _request: the request, the handling of its answer, the
\* sleep before the next attempt and, when the loop runs out after a
\* continue, the raise of line 163
\* faulty variant: every delay is retry_delay
Sleep_Constant(k) == retry_delay

\* _sleep: the delay slept after failed attempt k
Sleep(k) == retry_delay * (2 ^ k)

RequestAttempt(answer) ==
    LET h == HandleAnswer(answer, attempt)
    IN  /\ outcome = Pending
        /\ attempt \in 0..max_retries
        /\ responses' = Append(responses, answer)
        /\ last_error' = LastError(Classify(answer), last_error)
        /\ sleeps' = IF h.retry THEN Append(sleeps, Sleep(attempt)) ELSE sleeps
        /\ attempt' = IF h.retry THEN attempt + 1 ELSE attempt
        /\ outcome' = IF h.retry /\ attempt + 1 > max_retries
                      THEN Raised("KiotVietAPIError", LastError(Classify(answer), last_error))
                      ELSE h.outcome
        /\ UNCHANGED <<checkpoint, runVars, storeVars, tokenVars, upload, script>>

NextRequest == \E answer \in ClientAnswers : RequestAttempt(answer)

SpecRequest == Init /\ [][NextRequest]_vars

----------------------------------------------------------------------------
(* The checkpoint store on its own: _load_checkpoint and _save_checkpoint on  *)
(* every content of the file, a save being open("w"), which truncates, then  *)
(* the write of the text                                                     *)

\* the file a save leaves when the write raises OSError after k characters
CutShort(purchase_date, k) ==
    [exists |-> TRUE, text |-> SubSeq(JsonDump(purchase_date), 1, k)]

\* a call of _load_checkpoint
StoreLoad(failed_read) ==
    /\ store_pc = "idle"
    /\ load_out' = [exc |-> LoadCheckpoint(checkpoint, failed_read).exc,
                    value |-> LoadCheckpoint(checkpoint, failed_read).value,
                    read_failed |-> checkpoint.exists /\ failed_read]
    /\ UNCHANGED <<checkpoint, runVars, clientVars, tokenVars, upload, script, store_pc,
                   save_arg, store_old, save_exc>>

\* _save_checkpoint, lines 391-396: an empty purchase_date is refused, open
\* raises OSError, or the file is opened and truncated
StoreSaveOpen(w, open_fails) ==
    /\ store_pc = "idle"
    /\ save_arg' = w
    /\ store_old' = checkpoint
    /\ IF ~Truthy(w) \/ open_fails
       THEN /\ save_exc' = "ConfigurationError"
            /\ UNCHANGED <<checkpoint, store_pc>>
       ELSE /\ checkpoint' = OpenWrite(checkpoint)
            /\ store_pc' = "open"
            /\ save_exc' = "pending"
    /\ load_out' = NoLoad
    /\ UNCHANGED <<runVars, clientVars, tokenVars, upload, script>>

\* lines 397-401: json.dump and the close of the file write the text, or the
\* write raises OSError after k characters
StoreSaveWrite(k) ==
    /\ store_pc = "open"
    /\ checkpoint' = WriteText(checkpoint, SubSeq(JsonDump(save_arg), 1, k))
    /\ save_exc' = IF k = Len(JsonDump(save_arg)) THEN "none"
                   ELSE "ConfigurationError"
    /\ store_pc' = "idle"
    /\ UNCHANGED <<runVars, clientVars, tokenVars, upload, script, save_arg, store_old,
                   load_out>>

InitStoreFiles ==
    /\ checkpoint \in CheckpointFiles
    /\ InitRun
    /\ InitUnits

NextStore ==
    \/ \E failed_read \in BOOLEAN : StoreLoad(failed_read)
    \/ \E w \in Dates \cup {<<>>}, open_fails \in BOOLEAN : StoreSaveOpen(w, open_fails)
    \/ \E k \in 0..Len(JsonDump(save_arg)) : StoreSaveWrite(k)

SpecStore == InitStoreFiles /\ [][NextStore]_vars

----------------------------------------------------------------------------
(* TokenService.load, src/src/services/token_service.py *)

\* str.isdigit
IsDigit(chars) ==
    Len(chars) > 0 /\ \A i \in 1..Len(chars) : chars[i] \in (0..9) \cup {Superscript[1]}

\* int(str) of a string that str.isdigit accepts: ok is false when int raises
\* ValueError
RECURSIVE DecimalValue(_)
DecimalValue(chars) ==
    IF Len(chars) = 0 THEN 0
    ELSE 10 * DecimalValue(SubSeq(chars, 1, Len(chars) - 1)) + chars[Len(chars)]

IntOfStr(chars) ==
    IF \E i \in 1..Len(chars) : chars[i] \notin 0..9
    THEN [ok |-> FALSE, n |-> 0]
    ELSE [ok |-> TRUE, n |-> DecimalValue(chars)]

\* "key not in data" for the value the payload holds under a key of required
Lacks(value) == value.t = "missing"

\* lines 89-93: branch_id is no int, or is not positive
BranchIdRejected(branch_id) ==
    branch_id.t \notin {"int", "bool"} \/ branch_id.v[1] <= 0

\* _parse_credentials
ParseCredentials(data) ==
    IF data.t \in {"NoneType", "int", "float", "bool"}
    THEN LoadRaised("TypeError")
    ELSE IF Lacks(data.access_token) \/ Lacks(data.retailer_id)
              \/ Lacks(data.branch_id)
    THEN LoadRaised("ConfigurationError")
    ELSE IF data.t # "dict" THEN LoadRaised("AttributeError")
    ELSE IF data.access_token.t # "str" \/ data.access_token.v = <<>>
    THEN LoadRaised("ConfigurationError")
    ELSE IF data.branch_id.t = "str" /\ IsDigit(data.branch_id.v)
              /\ ~IntOfStr(data.branch_id.v).ok
    THEN LoadRaised("ValueError")
    ELSE LET branch_id ==
                 IF data.branch_id.t = "str" /\ IsDigit(data.branch_id.v)
                 THEN IntVal(IntOfStr(data.branch_id.v).n)
                 ELSE data.branch_id
         IN  IF BranchIdRejected(branch_id)
             THEN LoadRaised("ConfigurationError")
             ELSE IF data.expires_at.t \notin {"missing", "NoneType", "str"}
             THEN LoadRaised("ConfigurationError")
             ELSE Credentials("none", data.access_token, data.retailer_id,
                              branch_id,
                              IF data.expires_at.t = "missing" THEN Null
                              ELSE data.expires_at)

\* TokenService.load: the credentials returned or the exception raised
LoadToken(file) ==
    IF file.kind = "absent" THEN LoadRaised("ConfigurationError")
    ELSE IF file.kind \in {"malformed", "unreadable"}
    THEN LoadRaised("ConfigurationError")
    ELSE ParseCredentials(file.data)

\* the exceptions TokenService.load raises over all token files
TokenLoadErrors == {LoadToken(file).exc : file \in TokenFiles} \ {"none"}

\* a call of TokenService.load
TokenLoad ==
    /\ credentials = NotLoaded
    /\ credentials' = LoadToken(token_file)
    /\ UNCHANGED <<checkpoint, runVars, clientVars, storeVars, upload, script,
                   token_file>>

InitTokenFiles ==
    /\ checkpoint = NoCheckpointFile
    /\ InitRun
    /\ InitClient
    /\ InitStore
    /\ InitUpload
    /\ InitScript
    /\ token_file \in TokenFiles
    /\ credentials = NotLoaded

SpecToken == InitTokenFiles /\ [][TokenLoad]_vars

----------------------------------------------------------------------------
(* upload_to_azure_blob, src/src/utils/azure_blob.py *)

\* os.getenv("AZURE_STORAGE_CONTAINER", "kiotviet-data")
ContainerName(container) == IF container = None THEN DefaultContainer ELSE container

\* Path(file_path).name: the last component of the path
PathName(file_path) == <<file_path[Len(file_path)]>>

\* lines 37-38: the blob name defaults to the file name
BlobName(u) == IF u.blob_name = None THEN PathName(u.file_path) ELSE u.blob_name

\* faulty variant: the file is looked for before the environment is read
UploadCheck_FileFirst(u) ==
    IF ~u.exists THEN [exc |-> "FileNotFoundError", check |-> "file"]
    ELSE IF ~Truthy(u.connection_string)
    THEN [exc |-> "ValueError", check |-> "connection_string"]
    ELSE IF ~Truthy(ContainerName(u.container))
    THEN [exc |-> "ValueError", check |-> "container"]
    ELSE [exc |-> "none", check |-> "none"]

\* lines 25-35: the exception of the first precondition that fails
UploadCheck(u) ==
    IF ~Truthy(u.connection_string)
    THEN [exc |-> "ValueError", check |-> "connection_string"]
    ELSE IF ~Truthy(ContainerName(u.container))
    THEN [exc |-> "ValueError", check |-> "container"]
    ELSE IF ~u.exists THEN [exc |-> "FileNotFoundError", check |-> "file"]
    ELSE [exc |-> "none", check |-> "none"]

\* lines 41-45: the calls made until one raises
AzureCalls(u, azure) ==
    LET connect == [op |-> "from_connection_string", container |-> None,
                    blob |-> u.connection_string]
        client == [op |-> "get_blob_client", container |-> ContainerName(u.container),
                   blob |-> BlobName(u)]
        opened == [op |-> "open", container |-> None, blob |-> u.file_path]
        sent == [op |-> "upload_blob", container |-> ContainerName(u.container),
                 blob |-> BlobName(u)]
    IN  CASE azure = "from_connection_string" -> <<connect>>
          [] azure = "get_blob_client" -> <<connect, client>>
          [] azure = "open" -> <<connect, client, opened>>
          [] azure \in {"upload_blob", "ok"} -> <<connect, client, opened, sent>>

\* upload_to_azure_blob: a precondition raises, or the upload is attempted and
\* returns the blob URL or raises Exception (lines 49-50)
UploadToAzureBlob(azure) ==
    /\ upload.exc = "pending"
    /\ LET failed == UploadCheck(upload)
       IN  upload' =
               IF failed.exc # "none"
               THEN [upload EXCEPT !.exc = failed.exc, !.check = failed.check]
               ELSE [upload EXCEPT
                        !.calls = AzureCalls(upload, azure),
                        !.exc = IF azure = "ok" THEN "none" ELSE "Exception",
                        !.url = IF azure = "ok"
                                THEN ContainerName(upload.container) \o BlobName(upload)
                                ELSE None]
    /\ UNCHANGED <<checkpoint, runVars, clientVars, storeVars, tokenVars, script>>

\* every environment, path and blob name
InitUploads ==
    /\ checkpoint = NoCheckpointFile
    /\ InitRun
    /\ InitClient
    /\ InitStore
    /\ InitToken
    /\ InitScript
    /\ upload \in {UploadCall(connection_string, container, file_path, exists, blob_name) :
                      connection_string \in EnvValues(1), container \in EnvValues(2),
                      file_path \in FilePaths, exists \in BOOLEAN,
                      blob_name \in BlobNames}

NextUpload == \E azure \in AzureOutcomes : UploadToAzureBlob(azure)

SpecUpload == InitUploads /\ [][NextUpload]_vars

----------------------------------------------------------------------------
(* The pure steps of the page loop *)

\* faulty variant: the filter keeps a record dated exactly W0 (>= for >)
DateFiltered_NotStrict(purchase_date, last, is_incremental) ==
    /\ is_incremental
    /\ Truthy(last)
    /\ ~StrGreater(purchase_date, last)
    /\ purchase_date # last

\* the condition of the purchase-date filter of _filter_invoices: drop the record
DateFiltered(purchase_date, last, is_incremental) ==
    /\ is_incremental
    /\ Truthy(last)
    /\ ~StrGreater(purchase_date, last)

\* faulty variant: the seen set is not consulted
Keeps_NoSeenCheck(invoice, seen, last, is_incremental) ==
    /\ ~(InvoiceIdOf(invoice) <= 0)
    /\ ~DateFiltered(PurchaseDateOf(invoice), last, is_incremental)

\* faulty variant: a record without a positive Id is kept
Keeps_NoIdCheck(invoice, seen, last, is_incremental) ==
    /\ ~(InvoiceIdOf(invoice) \in seen)
    /\ ~DateFiltered(PurchaseDateOf(invoice), last, is_incremental)

\* whether _filter_invoices keeps a record, given the ids seen so far
Keeps(invoice, seen, last, is_incremental) ==
    /\ ~(InvoiceIdOf(invoice) <= 0 \/ InvoiceIdOf(invoice) \in seen)
    /\ ~DateFiltered(PurchaseDateOf(invoice), last, is_incremental)

\* _filter_invoices: the filtered list and the seen set it leaves
RECURSIVE FilterFrom(_, _, _, _, _, _)
FilterFrom(raw, i, seen, filtered, last, is_incremental) ==
    IF i > Len(raw)
    THEN [filtered |-> filtered, seen |-> seen]
    ELSE IF Keeps(raw[i], seen, last, is_incremental)
         THEN FilterFrom(raw, i + 1, seen \cup {InvoiceIdOf(raw[i])},
                         Append(filtered, raw[i]), last, is_incremental)
         ELSE FilterFrom(raw, i + 1, seen, filtered, last, is_incremental)

FilterInvoices(raw, seen, last, is_incremental) ==
    FilterFrom(raw, 1, seen, <<>>, last, is_incremental)

\* faulty variant: a short page stops the loop in no mode
ShouldContinue_OnlyEmptyStops(filtered, is_incremental) == Len(filtered) # 0

\* faulty variant: a short page stops the loop in every mode
ShouldContinue_ShortPageStops(filtered, is_incremental) ==
    IF Len(filtered) = 0 THEN FALSE
    ELSE IF Len(filtered) < page_size THEN FALSE
    ELSE TRUE

\* _should_continue
ShouldContinue(filtered, is_incremental) ==
    IF Len(filtered) = 0 THEN FALSE
    ELSE IF is_incremental /\ Len(filtered) < page_size THEN FALSE
    ELSE TRUE

\* faulty variant: the last date seen replaces the maximum, newer or not
Newer_KeepsLast(candidate, current) ==
    IF Truthy(candidate) THEN candidate ELSE current

\* the running maximum kept in sync (lines 163-166) and in _process_batch
\* (lines 279-282): candidate replaces current when it is set and newer
Newer(candidate, current) ==
    IF Truthy(candidate) /\ (~Truthy(current) \/ StrGreater(candidate, current))
    THEN candidate ELSE current

\* how a listed page repeats a positive invoice id: inside the page, or an id
\* of an earlier page of the run
Repeats(raw, seen) ==
    (IF \E i, j \in 1..Len(raw) :
            i < j /\ InvoiceIdOf(raw[i]) > 0 /\ InvoiceIdOf(raw[i]) = InvoiceIdOf(raw[j])
     THEN {"within"} ELSE {})
    \cup (IF \E i \in 1..Len(raw) : InvoiceIdOf(raw[i]) \in seen
          THEN {"across"} ELSE {})

\* listing answers that are not an object holding a list of invoice objects
\* under Data: a JSON value that is no object; Data a non-empty object, a
\* non-empty string, a non-zero number or true, a falsy value that is no list
\* (0, "", {}, false); a list with an element that is no object; an invoice
\* object whose Id is a string that is no number
MalformedShapes ==
    {"not_object", "data_object", "data_string", "data_number", "data_falsy",
     "item_not_object", "id_not_number"}

\* what lines 141-147 raise on a malformed listing answer: .get on a value that
\* has none (AttributeError), iteration over a number (TypeError), int() of a
\* string that is no number (ValueError); "none" when 'or []' makes the page
\* empty
ShapeError(shape) ==
    CASE shape \in {"not_object", "data_object", "data_string", "item_not_object"}
             -> "AttributeError"
      [] shape = "data_number" -> "TypeError"
      [] shape = "id_not_number" -> "ValueError"
      [] shape = "data_falsy" -> "none"

ListingShapeErrors == {ShapeError(shape) : shape \in MalformedShapes} \ {"none"}

\* a full listed page of which the filter kept some records, not all
CutShortByFilter(raw, filtered) ==
    IF Len(raw) = page_size /\ Len(filtered) > 0 /\ Len(filtered) < page_size
    THEN {"cut"} ELSE {}

\* the payload of _fetch_invoice_page (a key the payload lacks: None for
\* PurchaseDateFrom, "absent" for TimeRange)
ListPayload(sk, from_purchase_date) ==
    IF Truthy(from_purchase_date)
    THEN [Skip |-> sk, Take |-> page_size,
          PurchaseDateFrom |-> from_purchase_date, TimeRange |-> "absent"]
    ELSE [Skip |-> sk, Take |-> page_size,
          PurchaseDateFrom |-> None, TimeRange |-> "month"]

\* faulty variant: the checkpoint is saved again when nothing newer was seen (>= for >)
MustSave_NotStrict(newest, last) ==
    Truthy(newest) /\ (~Truthy(last) \/ ~StrGreater(last, newest))

\* faulty variant: without a loaded watermark nothing is saved
MustSave_NeedsWatermark(newest, last) ==
    Truthy(newest) /\ Truthy(last) /\ StrGreater(newest, last)

\* the condition under which sync saves the checkpoint after the loop
MustSave(newest, last) ==
    Truthy(newest) /\ (~Truthy(last) \/ StrGreater(newest, last))

\* faulty variant: every run truncates the output file
FileMode_Truncates(is_incremental, exists) == "w"

\* faulty variant: every run appends to an existing output file
FileMode_AppendIfExists(is_incremental, exists) ==
    IF exists THEN "a" ELSE "w"

\* file_mode of sync
FileMode(is_incremental, exists) ==
    IF is_incremental /\ exists THEN "a" ELSE "w"

\* faulty variant: _fetch_invoice_details catches no exception of the gateway
DetailCatches_Nothing(e) == FALSE

\* the exceptions of client.get that _fetch_invoice_details catches
DetailCatches(e) == IsInstance(e, "KiotVietAPIError")

\* answers of the detail endpoint: a list of n lines, a payload that holds no
\* list, or an exception of the gateway
DetailAnswers ==
    [kind : {"list"}, n : 0..MaxLines, exc : {"none"}]
    \cup [kind : {"nonlist"}, n : {0}, exc : {"none"}]
    \cup [kind : {"raise"}, n : {0}, exc : GatewayErrors]

\* faulty variant: the first line record of an invoice gets no row
RowsOf_SkipsFirst(id, n) == [k \in 1..(n - 1) |-> Row(id, k + 1)]

\* the rows written for the n line records of invoice id (lines 261-274)
RECURSIVE RowsOf(_, _)
RowsOf(id, n) == IF n = 0 THEN <<>> ELSE Append(RowsOf(id, n - 1), Row(id, n))

\* _fetch_invoice_details: the exception it raises (exc) or the number of line
\* records it returns (n), for an answer of the detail endpoint
FetchInvoiceDetails(invoice_id, answer) ==
    IF invoice_id <= 0 THEN [exc |-> "ConfigurationError", n |-> 0]
    ELSE IF answer.kind = "raise"
    THEN IF DetailCatches(answer.exc)
         THEN [exc |-> "none", n |-> 0]
         ELSE [exc |-> answer.exc, n |-> 0]
    ELSE IF answer.kind = "nonlist" THEN [exc |-> "none", n |-> 0]
    ELSE [exc |-> "none", n |-> answer.n]

----------------------------------------------------------------------------
(* sync, lines 95-122: the setup of a run *)

\* the invoices whose detail request raised in the current run (and was
\* caught by _fetch_invoice_details, lines 317-323)
FailedIds ==
    {detailLog[k].id : k \in {j \in 1..Len(detailLog) : detailLog[j].answer.kind = "raise"}}

\* the invoices whose detail request raised in an earlier run that completed;
\* on record only against a server with a catalogue, where an id stands for
\* one invoice in every run
FailedBefore ==
    IF server = NoServer THEN {}
    ELSE prev.failed \cup (IF pc = "done" THEN FailedIds ELSE {})

\* a new call of sync: the per-run state starts afresh
BeginRun(inc) ==
    /\ pc \in {"idle", "done", "failed", "save_failed"}
    /\ runs < MaxRuns
    /\ runs' = runs + 1
    /\ incremental' = inc
    /\ ckptBefore' = checkpoint
    /\ outExisted' = outExists
    /\ result' = NoResult
    /\ total_invoices' = 0
    /\ total_lines' = 0
    /\ skip' = 0
    /\ page' = 1
    /\ seen_ids' = {}
    /\ seen_before' = {}
    /\ invoices' = <<>>
    /\ idx' = 1
    /\ processed_invoices' = 0
    /\ processed_lines' = 0
    /\ batch_newest' = None
    /\ listLog' = <<>>
    /\ detailLog' = <<>>
    /\ ckptWrites' = 0
    /\ duplicates' = {}
    /\ prev' = [pc |-> pc, is_incremental_run |-> is_incremental_run,
                 last_purchase_date |-> last_purchase_date, openLen |-> openLen,
                 failed |-> FailedBefore]
    /\ listed' = "none"
    /\ UNCHANGED <<invoices_raw, unitVars, server>>

\* token_service.load() raises (line 97)
SyncCredentialsFail(inc) ==
    /\ BeginRun(inc)
    /\ pc' = "failed"
    /\ error' \in TokenLoadErrors
    /\ last_purchase_date' = None
    /\ is_incremental_run' = FALSE
    /\ file_mode' = "w"
    /\ newest_purchase_date' = None
    /\ openLen' = Len(outFile)
    /\ ckptReads' = 0
    /\ UNCHANGED fileVars

\* _load_checkpoint() raises ConfigurationError (line 100)
SyncCheckpointFail(inc) ==
    /\ inc
    /\ \E failed_read \in BOOLEAN :
           LoadCheckpoint(checkpoint, failed_read).exc # "none"
    /\ BeginRun(inc)
    /\ pc' = "failed"
    /\ error' = "ConfigurationError"
    /\ last_purchase_date' = None
    /\ is_incremental_run' = FALSE
    /\ file_mode' = "w"
    /\ newest_purchase_date' = None
    /\ openLen' = Len(outFile)
    /\ ckptReads' = 1
    /\ UNCHANGED fileVars

\* faulty variant: the header is written in append mode too
OpenOutput_HeaderAlways(mode, file) ==
    IF mode = "w" THEN <<HeaderLine>> ELSE Append(file, HeaderLine)

\* lines 119-122: the lines of the output file once it is opened: mode "w"
\* truncates it and writes the header, mode "a" leaves it as it is
OpenOutput(mode, file) ==
    IF mode = "w" THEN <<HeaderLine>> ELSE file

\* lines 97-126: credentials and checkpoint load, the output file is opened
\* and, in mode "w", truncated and given its header
SyncOpen(inc) ==
    LET load == LoadCheckpoint(checkpoint, FALSE)
        last == IF inc THEN load.value ELSE None
        is_inc == inc /\ last # None
        mode == FileMode(is_inc, outExists)
        opened == OpenOutput(mode, outFile)
    IN  /\ (inc => load.exc = "none")
        /\ BeginRun(inc)
        /\ last_purchase_date' = last
        /\ is_incremental_run' = is_inc
        /\ file_mode' = mode
        /\ newest_purchase_date' = last
        /\ outFile' = opened
        /\ outExists' = TRUE
        /\ openLen' = Len(opened)
        /\ ckptReads' = IF inc /\ checkpoint.exists THEN 1 ELSE 0
        /\ pc' = "loop"
        /\ error' = "none"
        /\ UNCHANGED checkpoint

----------------------------------------------------------------------------
(* sync, lines 128-172: the page loop *)

\* faulty variant: the newest date seen so far is saved when a listing request fails
FetchPageFail_SavesProgress(e) ==
    /\ pc = "loop"
    /\ listLog' = Append(listLog,
           ListPayload(skip, IF is_incremental_run THEN last_purchase_date ELSE None))
    /\ pc' = "failed"
    /\ error' = e
    /\ checkpoint' = IF Truthy(newest_purchase_date)
                     THEN SaveCheckpoint(newest_purchase_date) ELSE checkpoint
    /\ UNCHANGED <<outExists, outFile, runs, argVars, loopVars, seen_ids,
                   seen_before, batchVars, result, startVars, detailLog,
                   ckptWrites, ckptReads, duplicates, invoices_raw, unitVars,
                   server, prev>>
    /\ listed' = "raised"

\* _fetch_invoice_page raises: the exception leaves sync (lines 135-140)
FetchPageFail(e) ==
    /\ pc = "loop"
    /\ listLog' = Append(listLog,
           ListPayload(skip, IF is_incremental_run THEN last_purchase_date ELSE None))
    /\ pc' = "failed"
    /\ error' = e
    /\ listed' = "raised"
    /\ UNCHANGED <<fileVars, runs, argVars, loopVars, seen_ids, seen_before,
                   batchVars, result, startVars, detailLog, ckptWrites, ckptReads,
                   duplicates, invoices_raw, unitVars, server, prev>>

\* lines 135-150: a page is fetched and filtered; an empty filtered page ends
\* the loop
FetchPageStep(raw) ==
    LET f == FilterInvoices(raw, seen_ids, last_purchase_date, is_incremental_run)
    IN  /\ pc = "loop"
        /\ listLog' = Append(listLog,
               ListPayload(skip, IF is_incremental_run THEN last_purchase_date ELSE None))
        /\ seen_before' = seen_ids
        /\ invoices' = f.filtered
        /\ seen_ids' = f.seen
        /\ idx' = 1
        /\ processed_invoices' = 0
        /\ processed_lines' = 0
        /\ batch_newest' = None
        /\ pc' = IF Len(f.filtered) = 0 THEN "finish" ELSE "batch"
        /\ UNCHANGED <<fileVars, runs, argVars, loopVars, error, result,
                       startVars, detailLog, ckptWrites, ckptReads,
                       invoices_raw, unitVars, server, prev>>

\* lines 141-147 on a listing answer that is not an object holding a list of
\* invoice objects under Data: the exception of line 141 or of
\* _filter_invoices leaves sync, or Data is replaced by [] (line 141)
FetchPageMalformed(shape) ==
    /\ shape \in MalformedShapes
    /\ IF ShapeError(shape) = "none"
       THEN FetchPageStep(<<>>)
       ELSE /\ pc = "loop"
            /\ listLog' = Append(listLog,
                   ListPayload(skip, IF is_incremental_run THEN last_purchase_date
                                     ELSE None))
            /\ pc' = "failed"
            /\ error' = ShapeError(shape)
            /\ UNCHANGED <<fileVars, runs, argVars, loopVars, seen_ids, seen_before,
                           batchVars, result, startVars, detailLog, ckptWrites,
                           ckptReads, invoices_raw, unitVars, server, prev>>
    /\ listed' = shape
    /\ UNCHANGED duplicates

\* the listing answer is an object whose Data is a list of invoice objects
FetchPage(raw) ==
    /\ FetchPageStep(raw)
    /\ listed' = "object"
    /\ UNCHANGED duplicates

\* the same step, recording how the page repeated invoice ids and whether the
\* filter cut a full page short
FetchPageObserved(raw) ==
    /\ FetchPageStep(raw)
    /\ listed' = "object"
    /\ duplicates' = duplicates \cup Repeats(raw, seen_ids)
                        \cup CutShortByFilter(raw, invoices')

\* _process_batch, lines 254-282: one invoice of the page
ProcessInvoice(answer) ==
    /\ pc = "batch"
    /\ idx <= Len(invoices)
    /\ LET invoice_id == InvoiceIdOf(invoices[idx])
           purchase_date == PurchaseDateOf(invoices[idx])
           details == FetchInvoiceDetails(invoice_id, answer)
       IN  IF details.exc # "none"
           THEN /\ pc' = "failed"
                /\ error' = details.exc
                /\ detailLog' = IF invoice_id <= 0 THEN detailLog
                                ELSE Append(detailLog,
                                       [id |-> invoice_id, answer |-> answer, rows |-> 0])
                /\ UNCHANGED <<fileVars, batchVars>>
           ELSE /\ outFile' = outFile \o RowsOf(invoice_id, details.n)
                /\ processed_invoices' = processed_invoices + 1
                /\ processed_lines' = processed_lines + details.n
                /\ batch_newest' = Newer(purchase_date, batch_newest)
                /\ idx' = idx + 1
                /\ detailLog' = Append(detailLog,
                       [id |-> invoice_id, answer |-> answer, rows |-> details.n])
                /\ UNCHANGED <<checkpoint, outExists, invoices, pc, error>>
    /\ UNCHANGED <<runs, argVars, loopVars, seen_ids, seen_before, result,
                   startVars, listLog, ckptWrites, ckptReads, duplicates,
                   invoices_raw, unitVars,
                   server, listed, prev>>

\* faulty variant: the checkpoint is saved after every page
EndBatch_SavesCheckpoint ==
    /\ pc = "batch"
    /\ idx > Len(invoices)
    /\ total_invoices' = total_invoices + processed_invoices
    /\ total_lines' = total_lines + processed_lines
    /\ newest_purchase_date' = Newer(batch_newest, newest_purchase_date)
    /\ checkpoint' = IF MustSave(newest_purchase_date', last_purchase_date)
                     THEN SaveCheckpoint(newest_purchase_date') ELSE checkpoint
    /\ ckptWrites' = IF MustSave(newest_purchase_date', last_purchase_date)
                     THEN ckptWrites + 1 ELSE ckptWrites
    /\ IF ShouldContinue(invoices, is_incremental_run)
       THEN /\ skip' = skip + page_size
            /\ page' = page + 1
            /\ pc' = "loop"
       ELSE /\ pc' = "finish"
            /\ UNCHANGED <<skip, page>>
    /\ UNCHANGED <<outExists, outFile, runs, argVars, seen_ids, seen_before,
                   batchVars, error, result, startVars, listLog, detailLog,
                   ckptReads, duplicates, invoices_raw, unitVars,
                   server, listed, prev>>

\* faulty variant: the offset advances by the number of records the filter kept
EndBatch_SkipsByFiltered ==
    /\ pc = "batch"
    /\ idx > Len(invoices)
    /\ total_invoices' = total_invoices + processed_invoices
    /\ total_lines' = total_lines + processed_lines
    /\ newest_purchase_date' = Newer(batch_newest, newest_purchase_date)
    /\ IF ShouldContinue(invoices, is_incremental_run)
       THEN /\ skip' = skip + Len(invoices)
            /\ page' = page + 1
            /\ pc' = "loop"
       ELSE /\ pc' = "finish"
            /\ UNCHANGED <<skip, page>>
    /\ UNCHANGED <<fileVars, runs, argVars, seen_ids, seen_before, batchVars,
                   error, result, startVars, listLog, detailLog, ckptWrites,
                   ckptReads, duplicates, invoices_raw, unitVars,
                   server, listed, prev>>

\* lines 160-172: the page is done; totals, newest date, continue or stop
EndBatch ==
    /\ pc = "batch"
    /\ idx > Len(invoices)
    /\ total_invoices' = total_invoices + processed_invoices
    /\ total_lines' = total_lines + processed_lines
    /\ newest_purchase_date' = Newer(batch_newest, newest_purchase_date)
    /\ IF ShouldContinue(invoices, is_incremental_run)
       THEN /\ skip' = skip + page_size
            /\ page' = page + 1
            /\ pc' = "loop"
       ELSE /\ pc' = "finish"
            /\ UNCHANGED <<skip, page>>
    /\ UNCHANGED <<fileVars, runs, argVars, seen_ids, seen_before, batchVars,
                   error, result, startVars, listLog, detailLog, ckptWrites,
                   ckptReads, duplicates, invoices_raw, unitVars,
                   server, listed, prev>>

----------------------------------------------------------------------------
(* sync, lines 174-205: after the loop *)

Finish ==
    /\ pc = "finish"
    /\ LET save == MustSave(newest_purchase_date, last_purchase_date)
       IN  /\ checkpoint' = IF save THEN SaveCheckpoint(newest_purchase_date)
                            ELSE checkpoint
           /\ ckptWrites' = IF save THEN ckptWrites + 1 ELSE ckptWrites
           /\ result' = SyncResult(total_invoices, total_lines,
                                   newest_purchase_date, is_incremental_run, save)
    /\ pc' = "done"
    /\ UNCHANGED <<outExists, outFile, runs, argVars, loopVars, seen_ids,
                   seen_before, batchVars, error, startVars, listLog,
                   detailLog, ckptReads, duplicates, invoices_raw, unitVars,
                   server, listed, prev>>

\* lines 184 and 398-401: _save_checkpoint raises ConfigurationError because
\* open failed (written = -1: the file is as it was) or because the write
\* failed after written characters; sync raises it and returns no result
FinishSaveFail(written) ==
    /\ pc = "finish"
    /\ MustSave(newest_purchase_date, last_purchase_date)
    /\ checkpoint' = IF written < 0 THEN checkpoint
                     ELSE CutShort(newest_purchase_date, written)
    /\ ckptWrites' = IF written < 0 THEN ckptWrites ELSE ckptWrites + 1
    /\ pc' = "save_failed"
    /\ error' = "ConfigurationError"
    /\ UNCHANGED <<outExists, outFile, runs, argVars, loopVars, seen_ids,
                   seen_before, batchVars, result, startVars, listLog,
                   detailLog, ckptReads, duplicates, invoices_raw, unitVars,
                   server, listed, prev>>

----------------------------------------------------------------------------
\* every step of sync but the fetch of a page
OtherSteps ==
    \/ \E inc \in BOOLEAN : SyncCredentialsFail(inc)
    \/ \E inc \in BOOLEAN : SyncCheckpointFail(inc)
    \/ \E inc \in BOOLEAN : SyncOpen(inc)
    \/ \E e \in GatewayErrors : FetchPageFail(e)
    \/ \E shape \in MalformedShapes : FetchPageMalformed(shape)
    \/ \E answer \in DetailAnswers : ProcessInvoice(answer)
    \/ EndBatch
    \/ Finish
    \/ \E written \in (-1)..MaxWritten : FinishSaveFail(written)

Next ==
    \/ OtherSteps
    \/ \E raw \in Pages : FetchPage(raw)

Spec == Init /\ [][Next]_vars

\* the same runs, with the repeated ids of the listed pages on record
NextObserved ==
    \/ OtherSteps
    \/ \E raw \in Pages : FetchPageObserved(raw)

SpecObserved == Init /\ [][NextObserved]_vars

\* a checkpoint file that holds the string w as its watermark
CheckpointHolding(w) == [exists |-> TRUE, text |-> JsonDump(w)]

\* runs that start from the files of an earlier run: a checkpoint holding a
\* watermark (or the empty string, which _load_checkpoint returns as it is) and
\* an output file with its header
InitResumed ==
    /\ checkpoint \in {CheckpointHolding(w) : w \in Dates \cup {<<>>}}
    /\ outExists = TRUE
    /\ outFile = <<HeaderLine>>
    /\ server = NoServer
    /\ InitSync
    /\ InitUnits

SpecResumed == InitResumed /\ [][Next]_vars

----------------------------------------------------------------------------
(* _filter_invoices alone, on every page and every state of the loop *)

\* the arguments sync can hand to _filter_invoices: in a full run W0 is None,
\* in an incremental run it is a watermark that _save_checkpoint wrote
InitFilter ==
    /\ checkpoint = NoCheckpointFile
    /\ outExists = FALSE
    /\ outFile = <<>>
    /\ pc = "filter"
    /\ runs = 0
    /\ incremental \in BOOLEAN
    /\ \/ is_incremental_run = FALSE /\ last_purchase_date = None
       \/ is_incremental_run = TRUE /\ incremental = TRUE
            /\ last_purchase_date \in Dates
    /\ file_mode = "w"
    /\ total_invoices = 0
    /\ total_lines = 0
    /\ newest_purchase_date = None
    /\ skip = 0
    /\ page = 1
    /\ seen_ids \in SUBSET (1..MaxId)
    /\ seen_before = seen_ids
    /\ invoices = <<>>
    /\ idx = 1
    /\ processed_invoices = 0
    /\ processed_lines = 0
    /\ batch_newest = None
    /\ error = "none"
    /\ result = NoResult
    /\ ckptBefore = NoCheckpointFile
    /\ outExisted = FALSE
    /\ openLen = 0
    /\ listLog = <<>>
    /\ detailLog = <<>>
    /\ ckptWrites = 0
    /\ ckptReads = 0
    /\ duplicates = {}
    /\ invoices_raw \in Pages
    /\ server = NoServer
    /\ listed = "none"
    /\ prev = NoPrev
    /\ InitUnits

\* lines 142-147: the call of _filter_invoices
ApplyFilter ==
    LET f == FilterInvoices(invoices_raw, seen_ids, last_purchase_date,
                            is_incremental_run)
    IN  /\ pc = "filter"
        /\ invoices' = f.filtered
        /\ seen_ids' = f.seen
        /\ pc' = "filtered"
        /\ UNCHANGED <<fileVars, runs, argVars, loopVars, seen_before, idx,
                       processed_invoices, processed_lines, batch_newest, error,
                       result, startVars, listLog, detailLog, ckptWrites,
                       ckptReads, duplicates, invoices_raw, unitVars,
                   server, listed, prev>>

SpecFilter == InitFilter /\ [][ApplyFilter]_vars

----------------------------------------------------------------------------
(* Runs against a server that holds a fixed invoice list *)

\* the lists a server can hold: n invoices with the distinct positive ids
\* 1..n, each with a purchase date or none
ServerLists ==
    UNION {{[i \in 1..n |-> [Id |-> i, PurchaseDate |-> d[i]]] :
               d \in [1..n -> RawDates]} : n \in 0..MaxServed}

\* the invoices of the server that a listing payload selects: all of them
\* under TimeRange, those dated after PurchaseDateFrom otherwise (and those
\* dated exactly PurchaseDateFrom when the server's filter is inclusive)
Selected(srv, payload) ==
    LET from == payload.PurchaseDateFrom
        Match(invoice) ==
            \/ from = None
            \/ /\ Truthy(invoice.PurchaseDate)
               /\ \/ StrGreater(invoice.PurchaseDate, from)
                  \/ srv.inclusive /\ invoice.PurchaseDate = from
    IN  SelectSeq(srv.list, Match)

\* the Data list the server answers to a listing payload: Take records of
\* the selected ones from offset Skip on
ServePage(srv, payload) ==
    LET all == Selected(srv, payload)
        last == IF payload.Skip + payload.Take < Len(all)
                THEN payload.Skip + payload.Take ELSE Len(all)
    IN  SubSeq(all, payload.Skip + 1, last)

\* the detail answer of a server whose every invoice has one line
OneLine == [kind |-> "list", n |-> 1, exc |-> "none"]

\* a checkpoint and an output file as an earlier successful run left them, or
\* neither; the server holds any list
InitServed ==
    /\ checkpoint \in {NoCheckpointFile} \cup {SaveCheckpoint(d) : d \in Dates}
    /\ outExists = checkpoint.exists
    /\ outFile = IF checkpoint.exists THEN <<HeaderLine>> ELSE <<>>
    /\ server \in [list : ServerLists, inclusive : BOOLEAN]
    /\ InitSync
    /\ InitUnits

\* lines 135-150 against the server: the page listed is the one it serves
FetchPageServed ==
    FetchPage(ServePage(server,
        ListPayload(skip, IF is_incremental_run THEN last_purchase_date ELSE None)))

\* runs in which no request fails
NextServed ==
    \/ \E inc \in BOOLEAN : SyncOpen(inc)
    \/ FetchPageServed
    \/ ProcessInvoice(OneLine)
    \/ EndBatch
    \/ Finish

SpecServed == InitServed /\ [][NextServed]_vars

----------------------------------------------------------------------------
(* Runs that all complete, against a server on which an invoice keeps its
   purchase date *)

\* the sync calls of such a behaviour: one more than MaxRuns, for a run that
\* follows a full run that follows a run
StableRuns == MaxRuns + 1

\* the invoices a server can hold: the ids 1..MaxId, each with a purchase
\* date or none
Catalogues ==
    {[i \in 1..MaxId |-> [Id |-> i, PurchaseDate |-> d[i]]] :
        d \in [1..MaxId -> RawDates]}

\* the pages such a server can list: records of its catalogue in any order,
\* repeated or not, and records without a positive Id
StablePages(srv) ==
    {raw \in Pages :
        \A i \in 1..Len(raw) :
            InvoiceIdOf(raw[i]) > 0 => raw[i] = srv.list[InvoiceIdOf(raw[i])]}

\* a listed page holds a record without a positive Id
NonPositive(raw) ==
    IF \E i \in 1..Len(raw) : InvoiceIdOf(raw[i]) <= 0
    THEN {"nonpositive"} ELSE {}

\* listing answers that line 141 reads as an empty page: a response without a
\* body, for which the client returns {} (client.py, lines 155-156), an
\* object without Data, an object whose Data is null
EmptyShapes == {"empty_body", "no_data", "null_data"}

\* no file exists and no run has been made; the server holds any catalogue
InitStable ==
    /\ checkpoint = NoCheckpointFile
    /\ outExists = FALSE
    /\ outFile = <<>>
    /\ server \in [list : Catalogues, inclusive : {FALSE}]
    /\ InitSyncFrom(MaxRuns - StableRuns)
    /\ InitUnits

\* the answers of the detail endpoint of such a server: the one line of the
\* invoice, or a failure of the request
StableAnswers ==
    {OneLine, [kind |-> "raise", n |-> 0, exc |-> "KiotVietAPIError"]}

\* lines 135-150 on a page of the catalogue, recording whether the page held
\* a record without a positive Id
FetchPageStable(raw) ==
    /\ raw \in StablePages(server)
    /\ FetchPageStep(raw)
    /\ listed' = "object"
    /\ duplicates' = duplicates \cup NonPositive(raw)

\* faulty variant: an answer without a list under Data ends the run with an error
FetchPageEmpty_Raises(shape) ==
    /\ shape \in EmptyShapes
    /\ pc = "loop"
    /\ listLog' = Append(listLog,
           ListPayload(skip, IF is_incremental_run THEN last_purchase_date ELSE None))
    /\ pc' = "failed"
    /\ error' = "AttributeError"
    /\ listed' = shape
    /\ UNCHANGED <<fileVars, runs, argVars, loopVars, seen_ids, seen_before,
                   batchVars, result, startVars, detailLog, ckptWrites, ckptReads,
                   duplicates, invoices_raw, unitVars, server, prev>>

\* lines 135-150 on a listing answer without a list under Data:
\* page_payload.get("Data", []) or [] is the empty list
FetchPageEmpty(shape) ==
    /\ shape \in EmptyShapes
    /\ FetchPageStep(<<>>)
    /\ listed' = shape
    /\ UNCHANGED duplicates

\* runs in which no listing request and no checkpoint access fails
NextStable ==
    \/ \E inc \in BOOLEAN : SyncOpen(inc)
    \/ \E raw \in Pages : FetchPageStable(raw)
    \/ \E shape \in EmptyShapes : FetchPageEmpty(shape)
    \/ \E answer \in StableAnswers : ProcessInvoice(answer)
    \/ EndBatch
    \/ Finish

SpecStable == InitStable /\ [][NextStable]_vars

----------------------------------------------------------------------------
(* scripts/kiotviet_run_all.py: invoice sync and product export in one go *)

\* what InvoiceService().sync() can raise
SyncErrors ==
    GatewayErrors \cup TokenLoadErrors \cup ListingShapeErrors
        \cup {"ConfigurationError"}

\* what ProductService().export() can raise
ExportErrors == GatewayErrors \cup TokenLoadErrors \cup {"ConfigurationError"}

\* what upload_to_azure_blob can raise
UploadErrors == {"ValueError", "FileNotFoundError", "Exception"}

\* faulty variant: only the ValueError of the upload is caught
UploadCatches_OnlyValueError(e) == e = "ValueError"

\* except Exception around the upload (lines 73 and 93): every exception
\* class is caught
UploadCatches(e) == e = "Exception" \/ e \in DOMAIN ExceptionBase

\* the handler of main that catches e (lines 121-126): what it logs; both
\* handlers end with sys.exit(1)
MainHandler(e) ==
    IF \/ IsInstance(e, "ConfigurationError")
       \/ IsInstance(e, "KiotVietAPIError")
       \/ IsInstance(e, "ValueError")
    THEN "run_failed" ELSE "unexpected"

\* a call made by the script: its name, its argument and what it raised
Step(name, arg, e) == [step |-> name, arg |-> arg, exc |-> e]

\* the script after call, which raised e past the functions of the script:
\* a handler of main logs it and the process exits with code 1
Exited(call, e) ==
    [script EXCEPT !.steps = Append(@, call),
                   !.logged = Append(@, MainHandler(e)),
                   !.pc = "exited",
                   !.exit_code = 1]

\* the script after an upload that raised e: the exception is logged as a
\* warning and the script goes on at pc next, when the upload catches it
AfterUpload(call, e, next) ==
    IF e = "none"
    THEN [script EXCEPT !.steps = Append(@, call), !.pc = next,
                        !.exit_code = IF next = "exited" THEN 0 ELSE @]
    ELSE IF UploadCatches(e)
    THEN [script EXCEPT !.steps = Append(@, call),
                        !.logged = Append(@, "upload_failed"),
                        !.pc = next,
                        !.exit_code = IF next = "exited" THEN 0 ELSE @]
    ELSE Exited(call, e)

scriptFrame == <<checkpoint, runVars, clientVars, storeVars, tokenVars, upload>>

\* main, lines 101-103: both steps are skipped
NothingToDo ==
    /\ script.pc = "main"
    /\ script.args.skip_invoice /\ script.args.skip_product
    /\ script' = [script EXCEPT !.pc = "exited", !.exit_code = 0]
    /\ UNCHANGED scriptFrame

\* main, lines 109-110: the invoice step is skipped
InvoiceSkipped ==
    /\ script.pc = "main"
    /\ script.args.skip_invoice /\ ~script.args.skip_product
    /\ script' = [script EXCEPT !.pc = "product"]
    /\ UNCHANGED scriptFrame

\* run_invoice, lines 53-54: the sync call, which returns or raises e
InvoiceSyncCall(e) ==
    /\ script.pc = "main"
    /\ ~script.args.skip_invoice
    /\ LET call == Step("invoice_sync",
                        IF script.args.full_invoice THEN "full" ELSE "incremental", e)
       IN  script' = IF e = "none"
                     THEN [script EXCEPT !.steps = Append(@, call),
                                         !.pc = "invoice_upload"]
                     ELSE Exited(call, e)
    /\ UNCHANGED scriptFrame

\* run_invoice, lines 70-75: the upload of the invoice file
InvoiceUploadCall(e) ==
    /\ script.pc = "invoice_upload"
    /\ script' = AfterUpload(Step("invoice_upload", "output_file", e), e, "product")
    /\ UNCHANGED scriptFrame

\* main, lines 118-119: the product step is skipped
ProductSkipped ==
    /\ script.pc = "product"
    /\ script.args.skip_product
    /\ script' = [script EXCEPT !.pc = "exited", !.exit_code = 0]
    /\ UNCHANGED scriptFrame

\* run_product, lines 79-80: the export call, which returns or raises e
ProductExportCall(e) ==
    /\ script.pc = "product"
    /\ ~script.args.skip_product
    /\ LET call == Step("product_export", "page_size", e)
       IN  script' = IF e = "none"
                     THEN [script EXCEPT !.steps = Append(@, call),
                                         !.pc = "product_upload"]
                     ELSE Exited(call, e)
    /\ UNCHANGED scriptFrame

\* run_product, lines 90-95: the upload of the product file; main returns
ProductUploadCall(e) ==
    /\ script.pc = "product_upload"
    /\ script' = AfterUpload(Step("product_upload", "output_file", e), e, "exited")
    /\ UNCHANGED scriptFrame

\* every command line
InitRunAll ==
    /\ checkpoint = NoCheckpointFile
    /\ InitRun
    /\ InitClient
    /\ InitStore
    /\ InitToken
    /\ InitUpload
    /\ script \in {ScriptRun(args) : args \in ScriptArgs}

NextRunAll ==
    \/ NothingToDo
    \/ InvoiceSkipped
    \/ \E e \in {"none"} \cup SyncErrors : InvoiceSyncCall(e)
    \/ \E e \in {"none"} \cup UploadErrors : InvoiceUploadCall(e)
    \/ ProductSkipped
    \/ \E e \in {"none"} \cup ExportErrors : ProductExportCall(e)
    \/ \E e \in {"none"} \cup UploadErrors : ProductUploadCall(e)

SpecRunAll == InitRunAll /\ [][NextRunAll]_vars

----------------------------------------------------------------------------
(* Derived notions *)

\* the watermark a checkpoint file holds: what _load_checkpoint reads from it
\* (None: no file, or a file it rejects)
Watermark(file) == LoadCheckpoint(file, FALSE).value

\* a run is in progress or has ended after it opened the output file
Opened == pc \in {"loop", "batch", "finish", "done"}

\* the lines the current run has written after opening the output file
RunRows == SubSeq(outFile, openLen + 1, Len(outFile))

\* the rows of invoice id among the lines of seq
RowCount(seq, id) ==
    Cardinality({k \in 1..Len(seq) : seq[k].kind = "row" /\ seq[k].InvoiceId = id})

\* invoices counted so far by the run
Counted ==
    IF pc = "batch" THEN total_invoices + processed_invoices ELSE total_invoices

----------------------------------------------------------------------------
(* C1 *)

\* C1: the watermark in the checkpoint file after a successful run is never
\* lexicographically less than the watermark the file held before that run.
C1_CheckpointNeverOlder ==
    (pc = "done" /\ Truthy(Watermark(ckptBefore)))
        => /\ Truthy(Watermark(checkpoint))
           /\ ~StrGreater(Watermark(ckptBefore), Watermark(checkpoint))

----------------------------------------------------------------------------
(* C2 *)

\* C2: when a setup step or a listing request fails, the run ends with that
\* error, returns no result, and the checkpoint file is exactly what it was
\* before the run, whatever the run had processed.
C2_FailureLeavesCheckpoint ==
    pc = "failed"
        => /\ error \in GatewayErrors \cup TokenLoadErrors \cup ListingShapeErrors
           /\ checkpoint = ckptBefore
           /\ ckptWrites = 0
           /\ result = NoResult

\* a listing request failed after the run had processed invoices and written rows
C2_Witness ==
    /\ pc = "failed"
    /\ error = "KiotVietAPIError"
    /\ total_invoices > 0
    /\ Len(RunRows) > 0
    /\ Len(listLog) > 1
    /\ Truthy(newest_purchase_date)
    /\ newest_purchase_date # Watermark(checkpoint)

----------------------------------------------------------------------------
(* C3 *)

\* C3: an HTTP 401 answer to any request of the run, a detail request included,
\* ends the run with AuthenticationError.
C3_Auth401Fatal ==
    (\E k \in 1..Len(detailLog) :
        /\ detailLog[k].answer.kind = "raise"
        /\ detailLog[k].answer.exc = "AuthenticationError")
        => (pc = "failed" /\ error = "AuthenticationError")

----------------------------------------------------------------------------
(* C4 *)

\* C4: within one run each invoice id is processed at most once: its details
\* are requested at most once, it is counted at most once and its rows are
\* written at most once, whatever ids the pages repeat.
C4_ProcessedOnce ==
    /\ \A i, j \in 1..Len(detailLog) :
           i # j => detailLog[i].id # detailLog[j].id
    /\ Opened => Counted = Len(detailLog)
    /\ \A i, j \in 1..Len(RunRows) : i # j => RunRows[i] # RunRows[j]
    /\ \A i, j \in 1..Len(invoices) :
           i # j => InvoiceIdOf(invoices[i]) # InvoiceIdOf(invoices[j])
    /\ \A i \in 1..Len(invoices) : InvoiceIdOf(invoices[i]) \notin seen_before

\* a run ended after its pages repeated an id inside a page and across pages,
\* and the repeated invoice had rows
C4_Witness ==
    /\ pc = "done"
    /\ duplicates = {"within", "across"}
    /\ total_invoices = MaxId
    /\ \A k \in 1..Len(detailLog) : detailLog[k].rows > 0

----------------------------------------------------------------------------
(* C5 *)

----------------------------------------------------------------------------
(* C6 *)

\* C6: a generic API error of one detail fetch does not end the run: the
\* invoice is counted, has zero lines and zero rows, and every invoice whose
\* detail fetch answered a list has one row per line; the result counts them.
C6_DetailFailureIsolated ==
    /\ Counted = Len(detailLog)
    /\ \A k \in 1..Len(detailLog) :
           /\ (detailLog[k].answer.kind = "raise"
                  /\ detailLog[k].answer.exc = "KiotVietAPIError")
                 => (detailLog[k].rows = 0 /\ RowCount(RunRows, detailLog[k].id) = 0)
           /\ detailLog[k].answer.kind = "list"
                 => RowCount(RunRows, detailLog[k].id) = detailLog[k].answer.n
    /\ pc = "done"
         => (result.invoices = Len(detailLog) /\ result.lines = Len(RunRows))

\* a run that completed although the detail fetch of one of its two invoices
\* raised a generic API error; the other invoice has its row
C6_Witness ==
    /\ pc = "done"
    /\ result.invoices = 2
    /\ result.lines = 1
    /\ \E k \in 1..2 :
          /\ detailLog[k].answer.kind = "raise"
          /\ detailLog[k].answer.exc = "KiotVietAPIError"
          /\ detailLog[3 - k].answer.kind = "list"
          /\ RowCount(RunRows, detailLog[3 - k].id) = 1

----------------------------------------------------------------------------
(* C7 *)

\* C7: a run that completes its loop has saved the checkpoint, with
\* checkpoint_updated true, exactly when a newest purchase_date exists and W0
\* is None or newest is strictly greater than W0; otherwise the checkpoint
\* file is untouched and checkpoint_updated is false.
C7_SaveExactlyWhenNewer ==
    pc = "done"
        => LET newest == result.newest_purchase_date
               newer == /\ Truthy(newest)
                        /\ (last_purchase_date = None
                              \/ StrGreater(newest, last_purchase_date))
           IN  /\ result.checkpoint_updated <=> newer
               /\ newer => /\ checkpoint = SaveCheckpoint(newest)
                           /\ Watermark(checkpoint) = newest
                           /\ ckptWrites = 1
               /\ ~newer => (checkpoint = ckptBefore /\ ckptWrites = 0)

\* an incremental run that processed invoices and advanced the checkpoint
C7_Witness ==
    /\ pc = "done"
    /\ is_incremental_run
    /\ result.invoices > 0
    /\ result.checkpoint_updated
    /\ StrGreater(Watermark(checkpoint), Watermark(ckptBefore))

----------------------------------------------------------------------------
(* C8 *)

\* C8: a run writes the checkpoint file at most once, in the step that follows
\* the end of the page loop, after which it writes no output row; it reads the
\* checkpoint file at most once, in its first step, and only when incremental
\* mode was requested.
C8_CheckpointAccess ==
    /\ [](ckptWrites <= 1 /\ ckptReads <= 1 /\ (ckptReads = 1 => incremental))
    /\ [][(checkpoint' # checkpoint \/ ckptWrites' > ckptWrites)
             => (pc = "finish" /\ pc' \in {"done", "save_failed"}
                   /\ outFile' = outFile)]_vars
    /\ [][(runs' = runs /\ outFile' # outFile) => pc = "batch"]_vars
    /\ [][runs' = runs => ckptReads' = ckptReads]_vars

\* a run that read the checkpoint, wrote rows and then saved the checkpoint
C8_Witness ==
    /\ pc = "done"
    /\ ckptReads = 1
    /\ ckptWrites = 1
    /\ Len(RunRows) > 0
    /\ Len(listLog) > 1

----------------------------------------------------------------------------
(* C9 *)

\* C9: sync(incremental=True) without a checkpoint file runs as a full run:
\* result.incremental is False, every listing request carries the full
\* time-range window and no PurchaseDateFrom, no purchase date is filtered,
\* and the loop ends only on an empty filtered page.
C9_DegradedFullRun ==
    (pc # "idle" /\ incremental /\ ~ckptBefore.exists)
        => /\ ~is_incremental_run
           /\ \A k \in 1..Len(listLog) :
                  /\ listLog[k].TimeRange = "month"
                  /\ listLog[k].PurchaseDateFrom = None
           /\ \A d \in Dates \cup {<<>>} :
                  ~DateFiltered(d, last_purchase_date, is_incremental_run)
           /\ pc \in {"finish", "done"} => Len(invoices) = 0
           /\ pc = "done" => ~result.incremental

\* a degraded run that went on after a page shorter than page_size
C9_Witness ==
    /\ pc = "done"
    /\ incremental
    /\ ~ckptBefore.exists
    /\ Len(listLog) = 3
    /\ result.invoices = 2

----------------------------------------------------------------------------
(* C10 *)

\* C10: the output file is opened for append, and keeps its lines with no
\* header added, exactly when incremental was requested, a watermark was
\* loaded and the file already exists; in every other case it is truncated to
\* the header line alone; every later line of the run is a row.
C10_OpenMode ==
    /\ [][(runs' = runs + 1 /\ pc' = "loop")
             => IF incremental' /\ last_purchase_date' # None /\ outExists
                THEN file_mode' = "a" /\ outFile' = outFile
                ELSE file_mode' = "w" /\ outFile' = <<HeaderLine>>]_vars
    /\ [][(runs' = runs /\ outFile' # outFile)
             => /\ Len(outFile') > Len(outFile)
                /\ SubSeq(outFile', 1, Len(outFile)) = outFile
                /\ \A k \in (Len(outFile) + 1)..Len(outFile') :
                       outFile'[k].kind = "row"]_vars

\* an incremental run that appended rows to the rows of an earlier run
C10_Witness ==
    /\ Opened
    /\ file_mode = "a"
    /\ openLen > 1
    /\ Len(outFile) > openLen
    /\ outFile[1] = HeaderLine

----------------------------------------------------------------------------
(* C11 *)

\* the line records an answer of the detail endpoint yields
LinesOf(answer) == IF answer.kind = "list" THEN answer.n ELSE 0

\* C11: every invoice processed in a run has as many rows in the output as its
\* detail answer had line records, none when the fetch raised or the payload
\* held no list; the lines counted, and returned at the end, are the rows the
\* run wrote.
C11_RowsEqualLines ==
    /\ \A k \in 1..Len(detailLog) :
           /\ detailLog[k].rows = LinesOf(detailLog[k].answer)
           /\ RowCount(RunRows, detailLog[k].id) = LinesOf(detailLog[k].answer)
    /\ \A k \in 1..Len(RunRows) : RunRows[k].kind = "row"
    /\ Opened => Len(RunRows) = (IF pc = "batch" THEN total_lines + processed_lines
                                 ELSE total_lines)
    /\ pc = "done" => result.lines = Len(RunRows)

\* a completed run of two invoices: one detail payload held no list, the
\* other a list of one line
C11_Witness ==
    /\ pc = "done"
    /\ Len(detailLog) = 2
    /\ \E k \in 1..2 :
          /\ detailLog[k].answer.kind = "nonlist"
          /\ detailLog[3 - k].answer.kind = "list"
          /\ detailLog[3 - k].answer.n = 1
    /\ result.lines = 1
    /\ Len(RunRows) = 1

----------------------------------------------------------------------------
(* C12 *)

\* C12: when the gateway raises RateLimitError (a 429 on every attempt) for a
\* request of the run, a detail request included, the run ends with
\* RateLimitError and the checkpoint file is left as it was.
C12_RateLimitFatal ==
    (\E k \in 1..Len(detailLog) :
        /\ detailLog[k].answer.kind = "raise"
        /\ detailLog[k].answer.exc = "RateLimitError")
        => /\ pc = "failed"
           /\ error = "RateLimitError"
           /\ checkpoint = ckptBefore

----------------------------------------------------------------------------
(* C13, C14, C15: the gateway *)

\* a timeout, a transport error, an HTTP 5xx or an HTTP 429
IsTransient(answer) ==
    \/ answer.kind \in {"timeout", "error"}
    \/ answer.kind = "response" /\ (answer.status = 429 \/ answer.status \in 500..599)

\* an HTTP 4xx other than 429
IsClientError(answer) ==
    answer.kind = "response" /\ answer.status \in 400..499 /\ answer.status # 429

\* a response with a status below 400
IsSuccess(answer) == answer.kind = "response" /\ answer.status < 400

\* the answer received last
LastResponse == responses[Len(responses)]

\* C13: a request makes at most max_retries + 1 attempts; every attempt but the
\* last failed transiently; after a transient failure the request goes on
\* exactly while at most max_retries attempts were made, and otherwise it has
\* returned or raised.
C13_BoundedAttempts ==
    /\ Len(responses) <= max_retries + 1
    /\ \A i \in 1..(Len(responses) - 1) : IsTransient(responses[i])
    /\ outcome.kind = "pending"
         <=> (Len(responses) = 0
                \/ (IsTransient(LastResponse) /\ Len(responses) <= max_retries))
    /\ outcome.kind \in {"pending", "return", "raise"}
    /\ attempt = Len(responses) - (IF outcome.kind = "pending" THEN 0 ELSE 1)
    /\ attempt <= max_retries

\* a request that returned on its last attempt, after max_retries failures of
\* different kinds
C13_Witness ==
    /\ Len(responses) = max_retries + 1
    /\ responses[1].kind = "timeout"
    /\ responses[max_retries].kind = "response"
    /\ responses[max_retries].status = 503
    /\ outcome.kind = "return"

\* C14: a 401 or another 4xx except 429 is never followed by an attempt: it is
\* the last answer received, whatever came before it, and the request has
\* raised AuthenticationError for a 401 and KiotVietAPIError otherwise.
C14_NoRetryOnClientError ==
    \A i \in 1..Len(responses) :
        IsClientError(responses[i])
            => /\ i = Len(responses)
               /\ Len(sleeps) = i - 1
               /\ outcome = Raised(IF responses[i].status = 401
                                   THEN "AuthenticationError"
                                   ELSE "KiotVietAPIError", "none")

\* a 401 received on the last attempt, after retried failures
C14_Witness ==
    /\ Len(responses) = max_retries + 1
    /\ responses[1].kind = "response"
    /\ responses[1].status = 429
    /\ LastResponse.status = 401
    /\ outcome.exc = "AuthenticationError"

\* C15: when the last of max_retries + 1 attempts fails transiently the request
\* raises an API error for that failure, RateLimitError for a 429; a successful
\* answer without body returns the empty object, one with a JSON body returns
\* it, and one with another body raises KiotVietAPIError, all without a
\* further attempt.
C15_ExhaustedAndBodies ==
    /\ outcome.exc \in GatewayErrors \cup {"none"}
    /\ (Len(responses) = max_retries + 1 /\ IsTransient(LastResponse))
         => /\ outcome.kind = "raise"
            /\ IsInstance(outcome.exc, "KiotVietAPIError")
            /\ outcome.exc = (IF LastResponse.kind = "response"
                                   /\ LastResponse.status = 429
                              THEN "RateLimitError" ELSE "KiotVietAPIError")
            /\ LastResponse.kind = "timeout" => outcome.cause = "Timeout"
            /\ LastResponse.kind = "error" => outcome.cause = "RequestException"
            /\ (LastResponse.kind = "response" /\ LastResponse.status # 429)
                 => last_error = "KiotVietAPIError"
    /\ \A i \in 1..Len(responses) :
           IsSuccess(responses[i])
               => /\ i = Len(responses)
                  /\ Len(sleeps) = i - 1
                  /\ responses[i].body = "empty" => outcome = Returned("{}")
                  /\ responses[i].body = "json" => outcome = Returned("json")
                  /\ responses[i].body = "text"
                       => outcome = Raised("KiotVietAPIError", "JSONDecodeError")

\* a request whose every attempt failed, the last one with a 429
C15_Witness ==
    /\ Len(responses) = max_retries + 1
    /\ responses[1].kind = "error"
    /\ LastResponse.kind = "response"
    /\ LastResponse.status = 429
    /\ outcome.exc = "RateLimitError"
    /\ Len(sleeps) = max_retries

----------------------------------------------------------------------------
(* C16, C17, C18: the checkpoint store *)

\* the file holds a JSON object whose last_purchase_date is a string
HoldsString(file) ==
    file.exists /\ \E w \in Dates \cup {<<>>} : file.text = JsonDump(w)

\* the string of such a file
StringHeld(file) == CHOOSE w \in Dates \cup {<<>>} : file.text = JsonDump(w)

\* C16: load returns None when there is no file and the stored string when the
\* file holds a string watermark, and raises ConfigurationError for every other
\* content: malformed JSON, a field that is null, missing or no string, a JSON
\* value that is no object.
C16_LoadContract ==
    (load_out.exc # "never" /\ ~load_out.read_failed)
        => IF ~checkpoint.exists
           THEN load_out.exc = "none" /\ load_out.value = None
           ELSE IF HoldsString(checkpoint)
           THEN load_out.exc = "none" /\ load_out.value = StringHeld(checkpoint)
           ELSE load_out.exc = "ConfigurationError"

\* C17: from the moment a save begins, the checkpoint file holds the complete
\* text it held before or the complete new text, whether the save is still
\* running, has ended or has failed.
C17_SaveAtomic ==
    (save_exc # "never" /\ HoldsString(store_old))
        => checkpoint \in {store_old, SaveCheckpoint(save_arg)}

\* C18: after a successful save of w the file loads as w, whatever it held
\* before, and a load made then returns w; a save of the empty string raises
\* ConfigurationError and leaves the file as it was.
C18_SaveLoadRoundTrip ==
    /\ save_exc = "none"
         => /\ Truthy(save_arg)
            /\ LoadCheckpoint(checkpoint, FALSE).exc = "none"
            /\ LoadCheckpoint(checkpoint, FALSE).value = save_arg
            /\ checkpoint.text = JsonDump(save_arg)
    /\ (save_exc = "none" /\ load_out.exc # "never" /\ ~load_out.read_failed
          /\ store_pc = "idle")
         => (load_out.exc = "none" /\ load_out.value = save_arg)
    /\ (save_exc # "never" /\ save_arg = <<>>)
         => (save_exc = "ConfigurationError" /\ checkpoint = store_old)

\* a watermark saved over another one and then loaded
C18_Witness ==
    /\ save_exc = "none"
    /\ HoldsString(store_old)
    /\ Truthy(StringHeld(store_old))
    /\ StringHeld(store_old) # save_arg
    /\ load_out.exc = "none"
    /\ load_out.value = save_arg

----------------------------------------------------------------------------
(* C19: the token service *)

\* the token file is a JSON object with the three required fields
HasRequired(file) ==
    /\ file.kind = "json"
    /\ file.data.t = "dict"
    /\ file.data.access_token.t # "missing"
    /\ file.data.retailer_id.t # "missing"
    /\ file.data.branch_id.t # "missing"

\* C19: load raises ConfigurationError or returns credentials whose
\* access_token is a non-empty string, whose branch_id is a positive integer
\* and whose retailer_id was in the file; it raises ConfigurationError when the
\* file is absent, unreadable or malformed, or is not an object with the
\* three required fields; no file is changed and no request is sent.
C19_CredentialLoad ==
    credentials.exc # "pending"
        => /\ credentials.exc \in {"none", "ConfigurationError"}
           /\ credentials.exc = "none"
                => /\ credentials.access_token.t = "str"
                   /\ credentials.access_token.v # <<>>
                   /\ credentials.branch_id.t \in {"int", "bool"}
                   /\ credentials.branch_id.v[1] > 0
                   /\ credentials.retailer_id.t # "missing"
           /\ ~HasRequired(token_file) => credentials.exc = "ConfigurationError"
           /\ responses = <<>>
           /\ checkpoint = NoCheckpointFile
           /\ ~outExists

----------------------------------------------------------------------------
(* C20 *)

\* C20: a run that fails while loading the credentials or the checkpoint
\* raises ConfigurationError, has sent no request, and leaves the output file
\* (existence and lines) and the checkpoint file as they were.
C20_SetupFailureFrame ==
    [][(runs' = runs + 1 /\ pc' = "failed")
         => /\ error' = "ConfigurationError"
            /\ listLog' = <<>>
            /\ detailLog' = <<>>
            /\ outExists' = outExists
            /\ outFile' = outFile
            /\ checkpoint' = checkpoint]_vars

----------------------------------------------------------------------------
\* the purchase dates the invoices of a list carry
DatesOf(list) ==
    {list[i].PurchaseDate : i \in {k \in 1..Len(list) : Truthy(list[k].PurchaseDate)}}

\* the maximum purchase date among the invoices of a list that carries one
MaxDateOf(list) ==
    CHOOSE d \in DatesOf(list) : \A e \in DatesOf(list) : ~StrGreater(e, d)

\* C21: a full sync against a server that holds n invoices with distinct
\* positive ids and one detail line each, served in consecutive pages of
\* page_size, returns invoices = n and lines = n, leaves the header and one row
\* per invoice in the output file, and sets the checkpoint to the maximum
\* purchase date among the n invoices (when one of them carries a date).
C21_FullSyncEndToEnd ==
    (pc = "done" /\ ~is_incremental_run) =>
        LET n == Len(server.list)
        IN  /\ result.invoices = n
            /\ result.lines = n
            /\ Len(outFile) = n + 1
            /\ outFile[1] = HeaderLine
            /\ \A i \in 1..n : outFile[i + 1] = Row(server.list[i].Id, 1)
            /\ IF DatesOf(server.list) # {}
               THEN /\ checkpoint = SaveCheckpoint(MaxDateOf(server.list))
                    /\ result.newest_purchase_date = MaxDateOf(server.list)
               ELSE checkpoint = ckptBefore

\* two full pages of two, then the empty page: 4 invoices, 4 lines, 4 rows,
\* the newest date not being the last one listed
C21_Witness ==
    /\ pc = "done"
    /\ ~is_incremental_run
    /\ Len(server.list) = 2 * page_size
    /\ Len(listLog) = 3
    /\ result.invoices = 4
    /\ result.lines = 4
    /\ Len(outFile) = 5
    /\ server.list[1].PurchaseDate = <<2>>
    /\ server.list[4].PurchaseDate = <<1, 2>>
    /\ checkpoint = SaveCheckpoint(<<2>>)

----------------------------------------------------------------------------
\* the lines the previous run wrote after opening the output file, in a run
\* that appends
PrevRows == SubSeq(outFile, prev.openLen + 1, openLen)

\* the previous sync call was an incremental run that a fatal error ended
\* before the checkpoint was saved
PrevFailed == prev.pc = "failed" /\ prev.is_incremental_run

\* C22: a fatal error that ends an incremental run after it wrote rows leaves
\* the rows in the output file and the checkpoint at W0; the next incremental
\* run starts from the same W0 and appends after those rows.
C22_FailedRunIsRepeated ==
    /\ (pc = "failed" /\ is_incremental_run) =>
            /\ checkpoint = ckptBefore
            /\ Watermark(checkpoint) = last_purchase_date
            /\ \A k \in 1..Len(detailLog) :
                   RowCount(RunRows, detailLog[k].id) >= detailLog[k].rows
    /\ (PrevFailed /\ Opened /\ incremental) =>
            /\ is_incremental_run
            /\ last_purchase_date = prev.last_purchase_date
            /\ file_mode = "a"
            /\ openLen >= prev.openLen
            /\ Len(outFile) >= openLen

\* the rows of one invoice id are in the output file twice: once written by
\* the failed run, once by the run after it
C22_Witness ==
    /\ PrevFailed
    /\ pc = "done"
    /\ is_incremental_run
    /\ \E id \in 1..MaxId :
           /\ RowCount(PrevRows, id) = 1
           /\ RowCount(RunRows, id) = 1
           /\ RowCount(outFile, id) = 2

----------------------------------------------------------------------------
\* C23: a listing answer that is not an object, or whose Data is not a list of
\* invoice objects, makes the run fail with an error of the API (a
\* KiotVietAPIError) and leaves the checkpoint as it was.
C23_MalformedListingFails ==
    listed \in MalformedShapes
        => /\ pc = "failed"
           /\ IsInstance(error, "KiotVietAPIError")
           /\ checkpoint = ckptBefore

----------------------------------------------------------------------------
\* C24: upload_to_azure_blob checks its preconditions in a fixed order before
\* it contacts Azure: a missing connection string raises ValueError whether or
\* not the file exists, then an empty container name raises ValueError, then a
\* missing file raises FileNotFoundError; the blob client is created and the
\* upload attempted only when the three checks pass.
C24_UploadPreconditions ==
    upload.exc # "pending" =>
        LET no_connection == ~Truthy(upload.connection_string)
            no_container == upload.container = <<>>
        IN  /\ no_connection =>
                   upload.exc = "ValueError" /\ upload.check = "connection_string"
            /\ (~no_connection /\ no_container) =>
                   upload.exc = "ValueError" /\ upload.check = "container"
            /\ (~no_connection /\ ~no_container /\ ~upload.exists) =>
                   upload.exc = "FileNotFoundError" /\ upload.check = "file"
            /\ (no_connection \/ no_container \/ ~upload.exists) <=> upload.calls = <<>>
            /\ upload.calls # <<>> =>
                   /\ upload.exc \in {"none", "Exception"}
                   /\ upload.calls[1].op = "from_connection_string"
                   /\ upload.exc = "none" => Len(upload.calls) = 4

\* no connection string, an empty container name and no file: the ValueError
\* of the connection string
C24_Witness ==
    /\ upload.connection_string = None
    /\ upload.container = <<>>
    /\ ~upload.exists
    /\ upload.exc = "ValueError"
    /\ upload.check = "connection_string"
    /\ upload.calls = <<>>

----------------------------------------------------------------------------
\* the page loop of the run has been left without an exception
LoopLeft == pc \in {"finish", "done", "save_failed"}

\* the filtered page has fewer records than page_size
ShortPage == Len(invoices) < page_size

\* C25: after a non-empty filtered page the loop stops exactly when the run is
\* incremental and the filtered page is shorter than page_size; a full run
\* never stops on a non-empty filtered page; in both modes the loop stops on an
\* empty filtered page without processing anything of it.
C25_LoopStops ==
    /\ (LoopLeft /\ Len(invoices) > 0) =>
            /\ is_incremental_run
            /\ ShortPage
            /\ idx = Len(invoices) + 1
    /\ (pc = "loop" /\ page > 1) =>
            /\ Len(invoices) > 0
            /\ ~(is_incremental_run /\ ShortPage)
            /\ skip = (page - 1) * page_size
    /\ (LoopLeft /\ Len(invoices) = 0) =>
            /\ processed_invoices = 0
            /\ processed_lines = 0
            /\ Len(detailLog) = total_invoices
            /\ Len(listLog) = page

\* an incremental run has stopped after its first page, which was full when
\* listed and of which the filter kept one record
C25_Witness ==
    /\ pc = "finish"
    /\ is_incremental_run
    /\ page = 1
    /\ Len(invoices) = 1
    /\ processed_invoices = 1
    /\ "cut" \in duplicates

----------------------------------------------------------------------------
\* C26: every listing request of an incremental run carries PurchaseDateFrom =
\* W0 and no TimeRange, and every listing request of a full run carries
\* TimeRange = "month" and no PurchaseDateFrom, for every watermark the
\* checkpoint load can return.
C26_ListingWindow ==
    \A k \in 1..Len(listLog) :
        IF is_incremental_run
        THEN /\ listLog[k].PurchaseDateFrom = last_purchase_date
             /\ listLog[k].TimeRange = "absent"
        ELSE /\ listLog[k].PurchaseDateFrom = None
             /\ listLog[k].TimeRange = "month"

----------------------------------------------------------------------------
\* C27: the k-th listing request of a run has Skip = (k - 1) * page_size and
\* Take = page_size, however many records the filter dropped from the pages
\* before it.
C27_Offsets ==
    /\ \A k \in 1..Len(listLog) :
           /\ listLog[k].Skip = (k - 1) * page_size
           /\ listLog[k].Take = page_size
    /\ pc = "loop" => skip = Len(listLog) * page_size

\* a third request at offset 2 * page_size, after a full page of which the
\* filter kept one record
C27_Witness ==
    /\ Len(listLog) = 3
    /\ listLog[3].Skip = 2 * page_size
    /\ "cut" \in duplicates
    /\ total_invoices < 2 * page_size

----------------------------------------------------------------------------
\* the attempts of the request that have failed and were followed, or are to
\* be followed, by another attempt
RetriedAttempts == IF outcome = Pending THEN Len(responses) ELSE Len(responses) - 1

\* C28: the delay slept after failed attempt k (counted from 0) is
\* retry_delay * 2^k, so successive delays double; the gateway sleeps exactly
\* once between two consecutive attempts, and never after the last attempt or
\* after a failure that is not retried.
C28_Backoff ==
    /\ \A i \in 1..Len(sleeps) : sleeps[i] = retry_delay * (2 ^ (i - 1))
    /\ \A i \in 1..(Len(sleeps) - 1) : sleeps[i + 1] = 2 * sleeps[i]
    /\ Len(sleeps) = RetriedAttempts
    /\ Len(sleeps) <= max_retries
    /\ (outcome # Pending /\ ~IsTransient(LastResponse)) =>
            Len(sleeps) = Len(responses) - 1

\* every attempt has failed: two delays were slept, the second twice the
\* first, and none after the last attempt
C28_Witness ==
    /\ outcome.kind = "raise"
    /\ Len(responses) = max_retries + 1
    /\ IsTransient(LastResponse)
    /\ Len(sleeps) = max_retries
    /\ sleeps[1] = retry_delay
    /\ sleeps[2] = 2 * retry_delay

----------------------------------------------------------------------------
\* the run has handed the invoice id to _process_batch
Processed(id) == \E k \in 1..Len(detailLog) : detailLog[k].id = id

\* C29: a successful incremental run with watermark W0 against a server that
\* serves a fixed list in consecutive Skip/Take pages (and may also return
\* invoices dated exactly W0) processes every invoice with a positive id and a
\* purchase date strictly greater than W0.
C29_NewerInvoicesProcessed ==
    (pc = "done" /\ is_incremental_run) =>
        \A i \in 1..Len(server.list) :
            (/\ server.list[i].Id > 0
             /\ StrGreater(PurchaseDateOf(server.list[i]), last_purchase_date))
                => Processed(server.list[i].Id)

----------------------------------------------------------------------------
\* how many times the run has handed the invoice id to _process_batch
TimesProcessed(id) ==
    Cardinality({k \in 1..Len(detailLog) : detailLog[k].id = id})

\* the pages of page_size that hold n invoices, the last one possibly short
NonEmptyPages(n) == (n + page_size - 1) \div page_size

\* C30: a successful full run against a server that holds a fixed list of
\* invoices with distinct positive ids, served in consecutive disjoint
\* Skip/Take pages, processes every invoice of the list exactly once and
\* issues exactly one listing request beyond the last non-empty page.
C30_FullRunComplete ==
    (pc = "done" /\ ~is_incremental_run) =>
        /\ \A i \in 1..Len(server.list) : TimesProcessed(server.list[i].Id) = 1
        /\ Len(detailLog) = Len(server.list)
        /\ Len(listLog) = NonEmptyPages(Len(server.list)) + 1
        /\ listLog[Len(listLog)].Skip = NonEmptyPages(Len(server.list)) * page_size

\* three invoices: a full page, a short page that does not stop the full run,
\* and one request more, which finds nothing
C30_Witness ==
    /\ pc = "done"
    /\ ~is_incremental_run
    /\ Len(server.list) = page_size + 1
    /\ Len(listLog) = 3
    /\ \A id \in 1..(page_size + 1) : TimesProcessed(id) = 1

----------------------------------------------------------------------------
\* C31: the page loop of a run ends whatever the server lists: every listing
\* request but the last of a run is followed by a page that adds an id to
\* seen_ids, so a run sends at most one request more than it has seen distinct
\* positive ids, also when the server repeats a page it listed before
C31_LoopTerminates ==
    /\ seen_ids \subseteq 1..MaxId
    /\ Len(listLog) <= Cardinality(seen_ids) + 1
    /\ Len(listLog) <= MaxId + 1
    /\ (pc = "batch" => seen_ids # seen_before /\ seen_before \subseteq seen_ids)
    /\ (pc = "loop" => Len(listLog) <= Cardinality(seen_ids))

\* a run that was listed an id again, saw every id and sent one request more
C31_Witness ==
    /\ pc = "done"
    /\ "across" \in duplicates
    /\ Cardinality(seen_ids) = MaxId
    /\ Len(listLog) = MaxId + 1

----------------------------------------------------------------------------
\* C33: from no output file on, and with sync as the only writer, an output
\* file that exists begins with the header line and holds the header line
\* exactly once, during and after every run, however the runs end
C33_HeaderOnce ==
    IF outExists
    THEN /\ Len(outFile) >= 1
         /\ outFile[1] = HeaderLine
         /\ \A k \in 2..Len(outFile) : outFile[k] # HeaderLine
    ELSE outFile = <<>>

\* a second run appended rows to the rows of the first
C33_Witness ==
    /\ runs = 2
    /\ pc = "done"
    /\ file_mode = "a"
    /\ openLen > 1
    /\ Len(outFile) > openLen
    /\ outFile[1] = HeaderLine

----------------------------------------------------------------------------
\* C39: sync never calls the detail fetch with an invoice id that is not
\* positive: every invoice of the filtered page handed to _process_batch has
\* an Id above 0, so is every id of a detail request, and no run that sent a
\* listing request ends with the ConfigurationError of _fetch_invoice_details
C39_DetailIdPositive ==
    /\ \A i \in 1..Len(invoices) : InvoiceIdOf(invoices[i]) > 0
    /\ \A k \in 1..Len(detailLog) : detailLog[k].id > 0
    /\ (pc = "failed" /\ error = "ConfigurationError" => listLog = <<>>)

\* a page held a record without a positive Id next to an invoice, and the
\* detail of the invoice was fetched
C39_Witness ==
    /\ "nonpositive" \in duplicates
    /\ Len(detailLog) > 0
    /\ pc = "done"

----------------------------------------------------------------------------
\* the lines the output file held when the current run opened it
RowsBefore == SubSeq(outFile, 1, openLen)

\* C32: over runs that all complete, against a server on which an invoice
\* keeps its purchase date and from no files on, no invoice has rows of two
\* runs in the output file: an invoice with a row among the lines the file
\* held when a run opened it gets no row from that run
C32_NoRowsOfTwoRuns ==
    \A id \in 1..MaxId :
        ~(RowCount(RowsBefore, id) > 0 /\ RowCount(RunRows, id) > 0)

\* an incremental run appended the rows of an invoice to the rows an earlier
\* run wrote for another
C32_Witness ==
    /\ pc = "done"
    /\ file_mode = "a"
    /\ \E id \in 1..MaxId : RowCount(RowsBefore, id) > 0
    /\ \E id \in 1..MaxId : RowCount(RunRows, id) > 0

----------------------------------------------------------------------------
\* the purchase date of invoice id on a server with a catalogue
DateOfId(id) == PurchaseDateOf(server.list[id])

\* C34: when the detail request of an invoice fails in a run that completes,
\* the checkpoint holds a watermark that is not older than the purchase date
\* of the invoice after that run, and no later incremental run writes a
\* line of the invoice
C34_FailedDetailNotRetried ==
    /\ (pc = "done" =>
          \A id \in FailedIds :
              Truthy(DateOfId(id)) =>
                  /\ Watermark(checkpoint) # None
                  /\ ~StrGreater(DateOfId(id), Watermark(checkpoint)))
    /\ (is_incremental_run =>
          \A id \in prev.failed : RowCount(RunRows, id) = 0)

----------------------------------------------------------------------------
\* the purchase dates of the invoices the current run has handed to
\* _process_batch, those without a date left out
ProcessedDates ==
    {DateOfId(detailLog[k].id) : k \in 1..Len(detailLog)} \ {<<>>}

\* the maximum of a non-empty set of dates
MaxDate(S) == CHOOSE d \in S : \A e \in S : ~StrGreater(e, d)

\* C35: a run with incremental=False never reads the checkpoint file; when it
\* has processed an invoice with a purchase date it overwrites the checkpoint
\* with the maximum purchase date it processed, whatever the file held, and
\* when it has processed none it leaves the checkpoint file as it was
C35_FullRunCheckpoint ==
    (pc # "idle" /\ ~incremental) =>
        /\ ckptReads = 0
        /\ last_purchase_date = None
        /\ (pc # "done" => checkpoint = ckptBefore)
        /\ (pc = "done" =>
              IF ProcessedDates # {}
              THEN checkpoint = SaveCheckpoint(MaxDate(ProcessedDates))
              ELSE checkpoint = ckptBefore /\ ckptWrites = 0)

\* a full run replaced a watermark by an older one
C35_Witness ==
    /\ pc = "done"
    /\ ~incremental
    /\ ckptBefore.exists
    /\ ProcessedDates # {}
    /\ StrGreater(Watermark(ckptBefore), Watermark(checkpoint))

\* C36: after every successful run the returned newest_purchase_date is the
\* maximum of the loaded watermark W0, if there is one, and the purchase dates
\* of the invoices processed (None when there is neither); when
\* checkpoint_updated is true it is the value the checkpoint file now holds,
\* and in an incremental run it is not less than W0
C36_ReturnedNewest ==
    pc = "done" =>
        LET S == ProcessedDates
                 \cup (IF last_purchase_date # None THEN {last_purchase_date} ELSE {})
        IN  /\ result.newest_purchase_date = IF S = {} THEN None ELSE MaxDate(S)
            /\ (result.checkpoint_updated =>
                    Watermark(checkpoint) = result.newest_purchase_date)
            /\ (is_incremental_run =>
                    ~StrGreater(last_purchase_date, result.newest_purchase_date))

\* an incremental run processed an invoice newer than W0, returned its date
\* and saved it
C36_Witness ==
    /\ pc = "done"
    /\ is_incremental_run
    /\ result.checkpoint_updated
    /\ StrGreater(result.newest_purchase_date, last_purchase_date)
    /\ Watermark(checkpoint) = result.newest_purchase_date
    /\ ProcessedDates # {}

----------------------------------------------------------------------------
\* C37: a listing answer without a body, without Data or with a null Data is
\* an empty page: on whichever page it arrives the loop ends and the run
\* completes with the invoices and lines counted so far; the checkpoint then
\* holds the newest purchase date the run processed, and is left as it was when
\* the run processed none (so when the answer arrives on the first page)
C37_EmptyAnswerEndsRun ==
    listed \in EmptyShapes =>
        /\ pc \in {"finish", "done"}
        /\ error = "none"
        /\ invoices = <<>>
        /\ total_invoices = Len(detailLog)
        /\ total_lines = Len(RunRows)
        /\ (pc = "done" =>
              /\ result.invoices = Len(detailLog)
              /\ result.lines = Len(RunRows)
              /\ (Len(listLog) = 1 => checkpoint = ckptBefore)
              /\ IF ProcessedDates # {}
                 THEN Watermark(checkpoint) = MaxDate(ProcessedDates)
                 ELSE checkpoint = ckptBefore)

\* the answer arrived after a page whose invoices were processed, and the
\* run saved the newest of their dates
C37_Witness ==
    /\ listed \in EmptyShapes
    /\ pc = "done"
    /\ Len(listLog) >= 2
    /\ Len(detailLog) > 0
    /\ result.checkpoint_updated
    /\ checkpoint # ckptBefore

----------------------------------------------------------------------------
\* the place of a call in the order of the combined script
StepRank(name) ==
    CASE name = "invoice_sync" -> 1
      [] name = "invoice_upload" -> 2
      [] name = "product_export" -> 3
      [] name = "product_upload" -> 4

\* the script made the call name
StepRan(name) == \E k \in 1..Len(script.steps) : script.steps[k].step = name

\* the call name of the script raised
StepRaised(name) ==
    \E k \in 1..Len(script.steps) :
        script.steps[k].step = name /\ script.steps[k].exc # "none"

\* C38: the combined script calls invoice sync, invoice upload, product
\* export and product upload in that order; an error raised by invoice sync
\* ends the process with exit code 1 before the invoice upload and the product
\* export; a failed upload is logged and stops nothing: the product export
\* still runs unless it is skipped, and the exit code is 0 unless the sync or
\* the export raised
C38_ScriptOrder ==
    /\ \A i, j \in 1..Len(script.steps) :
           i < j => StepRank(script.steps[i].step) < StepRank(script.steps[j].step)
    /\ (StepRan("invoice_upload") => StepRan("invoice_sync") /\ ~StepRaised("invoice_sync"))
    /\ (StepRan("product_upload") => StepRan("product_export") /\ ~StepRaised("product_export"))
    /\ (StepRaised("invoice_sync") =>
           /\ script.pc = "exited"
           /\ script.exit_code = 1
           /\ Len(script.steps) = 1)
    /\ (StepRaised("invoice_upload") \/ StepRaised("product_upload") =>
           "upload_failed" \in {script.logged[k] : k \in 1..Len(script.logged)})
    /\ (script.pc = "exited" =>
           /\ script.exit_code \in {0, 1}
           /\ (script.exit_code = 1 <=>
                  StepRaised("invoice_sync") \/ StepRaised("product_export"))
           /\ (StepRaised("invoice_upload") /\ ~script.args.skip_product =>
                  StepRan("product_export"))
           /\ (~script.args.skip_invoice => StepRan("invoice_sync"))
           /\ (script.args.skip_invoice => ~StepRan("invoice_sync")))
    /\ (script.pc # "exited" => script.exit_code = -1)

\* both uploads failed, all four calls were made and the exit code is 0
C38_Witness ==
    /\ script.pc = "exited"
    /\ script.exit_code = 0
    /\ Len(script.steps) = 4
    /\ StepRaised("invoice_upload")
    /\ StepRaised("product_upload")

====
